---- MODULE Spec2Model ----
(***************************************************************************)
(* Verification model of the test generation agent:                        *)
(*   - the revision graph of src/test_generation_agent.py,                 *)
(*   - the two-node QA graph of langgraph/qa_agent_graph.py,               *)
(*   - EmbeddingCache and EmbeddingService of app/services/embedding.py.   *)
(* Each subsystem has its own specification over the shared variables.     *)
(***************************************************************************)
EXTENDS Integers, Sequences, FiniteSets, TLC

VARIABLES
    \* ---- revision graph (src/test_generation_agent.py) ----
    node,               \* the node the graph runs next, or "END"
    revision_number,    \* AgentState.revision_number (NoRevision: key absent)
    max_revisions,      \* AgentState.max_revisions
    initial_revision,   \* revision_number the caller passed in
    test_scenarios,     \* AgentState.test_scenarios
    test_cases,         \* AgentState.test_cases
    test_cases_by,      \* node whose return value wrote test_cases
    feedback,           \* AgentState.feedback
    gen_calls,          \* model.invoke calls made by generate_test_cases_node
    collect_calls,      \* model.invoke calls made by collect_feedback_node
    apply_calls,        \* model.invoke calls made by apply_feedback_node
    \* ---- QA graph (langgraph/qa_agent_graph.py) ----
    qa_pc,              \* position of process_user_story_with_langgraph
    qa_analysis,        \* AgentState.analysis
    qa_messages,        \* len(AgentState.messages)
    qa_test_cases,      \* AgentState.test_cases
    qa_parse_failed,    \* generate_test_cases caught a json.JSONDecodeError
    qa_error_log,       \* number of logger.error records written
    qa_result,          \* what process_user_story_with_langgraph returned
    \* ---- EmbeddingCache (app/services/embedding.py) ----
    cache,              \* EmbeddingCache.cache: the dict, in insertion order
    max_size,           \* EmbeddingCache.max_size
    hits,               \* EmbeddingCache.hits
    misses,             \* EmbeddingCache.misses
    last_call,          \* the most recent completed call and what it returned
    set_log,            \* texts of the set calls that returned, in call order
    get_log,            \* what each get call of a caller returned, in call order
    last_set,           \* per text, the vector of its latest set that returned
    \* ---- EmbeddingService (app/services/embedding.py) ----
    backend_calls,      \* embed_query / encode calls made for embed_text so far
    calls_made,         \* embed_text calls completed so far
    evictions,          \* entries the cache has evicted so far
    embedded,           \* per text, what its latest successful embed_text
                        \* returned and the eviction count at that return
    retry_log,          \* what each backend call of the latest
                        \* _embed_text_with_retry did, in call order
    \* ---- embed_texts and its _batch_embed workers ----
    batch_pc,           \* position of embed_texts
    batch_texts,        \* the texts argument of embed_texts
    batch_results,      \* the list embed_texts returns
    wk                  \* per worker thread, the locals of its _batch_embed call,
                        \* with how each result slot was last filled and
                        \* whether the batch backend call raised
VARIABLES
    \* ---- vector store, app/services/vector_store.py ----
    vs_backend,         \* VECTOR_DB_TYPE: which VectorStoreService is in use
    us_points,          \* server side: the user stories collection, per
                        \* story_id the stored vector
    tc_points,          \* server side: the test cases collection, per
                        \* test_id the stored story_id and vector
    vs_call             \* the latest store / find call: its arguments, what
                        \* the embedding service and the backend did, and
                        \* how the call ended

VARIABLES
    \* ---- EmbeddingService.__init__ ----
    ctor,               \* whether the service was constructed and what the
                        \* smoke test saw
    tpl_call            \* the latest embed_text / embed_user_story /
                        \* embed_test_case call made through the service

VARIABLES
    \* ---- AzureDevOpsService.create_test_cases_for_story ----
    ado_pc,             \* the tracker call the function is about to make
    ado_k,              \* position in `for test_case in test_cases`
    ado_records,        \* the TestCaseRecord objects of test_cases
    ado_initial,        \* the same records as they were passed in
    ado_calls,          \* the tracker calls made so far, in order
    ado_result          \* created_test_cases

VARIABLES
    \* ---- csv_writer: markdown_to_test_case and the CSV renderings ----
    md_pc,              \* which function is called, and whether it returned
    md_text,            \* markdown_text, as its lines
    md_out,             \* what markdown_to_test_case returned
    csv_in,             \* the test cases passed to the CSV functions
    csv_out,            \* the rows test_case_to_csv wrote
    csv_all             \* the rows test_cases_to_csv wrote

VARIABLES
    \* ---- two processes constructing the same vector store ----
    bs_backend,         \* which backend both processes construct
    bs_yaml,            \* whether vector_db/schema.yaml exists (Weaviate)
    bs_initial,         \* the collections on the server before either started
    bs_server,          \* the collections the server has now
    bs_proc             \* per process, where its constructor is and the
                        \* collection names it read

graphVars == <<node, revision_number, max_revisions, initial_revision,
               test_scenarios, test_cases, test_cases_by, feedback,
               gen_calls, collect_calls, apply_calls>>

qaVars == <<qa_pc, qa_analysis, qa_messages, qa_test_cases,
            qa_parse_failed, qa_error_log, qa_result>>

cacheVars == <<cache, max_size, hits, misses>>

callVars == <<last_call, set_log, get_log, last_set>>

svcVars == <<backend_calls, calls_made, evictions, embedded, retry_log>>

batchVars == <<batch_pc, batch_texts, batch_results, wk>>

storeVars == <<vs_backend, us_points, tc_points, vs_call>>

ctorVars == <<ctor, tpl_call>>

csvVars == <<md_pc, md_text, md_out, csv_in, csv_out, csv_all>>

adoVars == <<ado_pc, ado_k, ado_records, ado_initial, ado_calls, ado_result>>

bootVars == <<bs_backend, bs_yaml, bs_initial, bs_server, bs_proc>>

vars == <<graphVars, qaVars, cacheVars, callVars, svcVars, batchVars, storeVars,
          bootVars, ctorVars, csvVars, adoVars>>

\* what the actions of one subsystem leave alone
notGraphVars == <<qaVars, cacheVars, callVars, svcVars, batchVars, storeVars, bootVars,
                 ctorVars, csvVars, adoVars>>
notQaVars    == <<graphVars, cacheVars, callVars, svcVars, batchVars, storeVars, bootVars,
                 ctorVars, csvVars, adoVars>>
notCacheVars == <<graphVars, qaVars, svcVars, batchVars, storeVars, bootVars,
                 ctorVars, csvVars, adoVars>>
notSvcVars   == <<graphVars, qaVars, batchVars, storeVars, bootVars, ctorVars,
                 csvVars, adoVars>>
notBatchVars == <<graphVars, qaVars, callVars, svcVars, storeVars, bootVars,
                 ctorVars, csvVars, adoVars>>
notStoreVars == <<graphVars, qaVars, cacheVars, callVars, svcVars, batchVars, bootVars,
                 ctorVars, csvVars, adoVars>>
notBootVars  == <<graphVars, qaVars, cacheVars, callVars, svcVars, batchVars, storeVars,
                 ctorVars, csvVars, adoVars>>

----------------------------------------------------------------------------
(* Bounds of the model.                                                    *)
MaxRevisionsBound == 4      \* max_revisions ranges over 0..MaxRevisionsBound
MaxStartRevision  == 2      \* initial revision_number ranges over 0..MaxStartRevision
NumResponses      == 2      \* distinct LLM response texts
MaxItems          == 3      \* longest JSON array the LLM returns
MaxCacheSize      == 2      \* max_size ranges over 0..MaxCacheSize
NumVectors        == 2      \* distinct embedding vectors
MaxGets           == 2      \* cache.get calls made directly by a caller
MaxEmbedCalls     == 3      \* embed_text calls made by a caller
MAX_RETRY_ATTEMPTS == 2     \* app.config.MAX_RETRY_ATTEMPTS (not set in the sources)
BATCH_SIZE        == 2      \* app.config.BATCH_SIZE (not set in the sources)
MaxBatchInput     == 3      \* longest texts list passed to embed_texts
NumStories        == 3      \* distinct story_id values
NumTestCases      == 1      \* distinct test_id values
MaxLimit          == 3      \* limit of a similarity search ranges over 1..MaxLimit
EMBEDDING_DIMENSIONS == 2   \* app.config.EMBEDDING_DIMENSIONS (not set in the sources)
MaxDim            == 3      \* the smoke test's vector has 1..MaxDim components
MaxTemplateCalls  == 2      \* calls made through a constructed service
MaxBodyLines      == 4      \* lines of a markdown block after its title line
MaxSteps          == 3      \* steps of a test case passed to the CSV functions
MaxCsvCases       == 2      \* test cases passed to test_cases_to_csv
MaxAdoCases       == 2      \* test cases passed to create_test_cases_for_story
NumTrackerIds     == 3      \* work item IDs the tracker can assign

NoRevision == -1            \* "revision_number" key missing from the state
NoText     == 0             \* a state key that no node has written yet
Responses  == 1..NumResponses
NumTexts  == MaxCacheSize + 1
Texts     == 1..NumTexts
NoneValue == 0                       \* Python's None
Vectors   == 1..NumVectors

NoCall == [op |-> "none", text |-> 0, arg |-> NoneValue, ret |-> NoneValue,
           raised |-> FALSE, calls |-> 0]

NotEmbedded == [ret |-> NoneValue, ev |-> 0]

\* [0.0] * EMBEDDING_DIMENSIONS
ZeroVector == -1

\* the most sub-batches embed_texts submits
MaxWorkers == (MaxBatchInput + BATCH_SIZE - 1) \div BATCH_SIZE

\* a thread pool slot that has no _batch_embed call
NoWorker == [pc |-> "unused", i |-> 0, got |-> NoneValue, res |-> <<>>,
             todo |-> <<>>, mode |-> "batch", emb |-> NoneValue,
             used |-> 0, oldest |-> <<>>, how |-> <<>>, batch_raised |-> FALSE]


----------------------------------------------------------------------------
(* Each subsystem before it is started: the state its variables keep in    *)
(* the specifications of the other subsystems.                             *)

\* the revision graph before it is streamed
GraphIdle ==
    /\ node = "idle"
    /\ initial_revision = NoRevision
    /\ revision_number = NoRevision
    /\ max_revisions = 0
    /\ test_scenarios = NoText
    /\ test_cases = NoText
    /\ test_cases_by = "none"
    /\ feedback = NoText
    /\ gen_calls = 0
    /\ collect_calls = 0
    /\ apply_calls = 0

\* the QA graph before process_user_story_with_langgraph is called
QaIdle ==
    /\ qa_pc = "idle"
    /\ qa_analysis = "None"
    /\ qa_messages = 0
    /\ qa_test_cases = <<>>
    /\ qa_parse_failed = FALSE
    /\ qa_error_log = 0
    /\ qa_result = [test_cases |-> <<>>, summary |-> "none", count |-> 0]

\* no EmbeddingCache has been constructed
CacheIdle ==
    /\ cache = <<>>
    /\ max_size = 0
    /\ hits = 0
    /\ misses = 0
    /\ last_call = NoCall
    /\ set_log = <<>>
    /\ get_log = <<>>
    /\ last_set = [t \in Texts |-> NoneValue]

\* no EmbeddingService call has been made
ServiceIdle ==
    /\ backend_calls = 0
    /\ calls_made = 0
    /\ evictions = 0
    /\ embedded = [t \in Texts |-> NotEmbedded]
    /\ retry_log = <<>>

\* EmbeddingService() has not been called
NoCtor == [state |-> "none", smoke_calls |-> 0, smoke_raised |-> FALSE,
           dim |-> 0, warned |-> FALSE]

\* no call has been made through the constructed service
NoTemplateCall == [op |-> "none", title |-> "", description |-> "", text |-> "",
                   was_cached |-> FALSE, ret |-> NoneValue, raised |-> FALSE,
                   calls |-> 0]

CtorIdle ==
    /\ ctor = NoCtor
    /\ tpl_call = NoTemplateCall

\* markdown_to_test_case returned None
NoRecord == [returned |-> FALSE, title |-> {}, description |-> {}, steps |-> <<>>,
             expected_result |-> <<>>, test_type |-> "none"]

\* create_test_cases_for_story has not been called
AdoIdle ==
    /\ ado_pc = "idle"
    /\ ado_k = 0
    /\ ado_records = <<>>
    /\ ado_initial = <<>>
    /\ ado_calls = <<>>
    /\ ado_result = <<>>

\* test_case_to_csv has not been called
NoCsv == [of |-> 0, rows |-> <<>>]

\* no function of csv_writer has been called
CsvIdle ==
    /\ md_pc = "idle"
    /\ md_text = <<>>
    /\ md_out = NoRecord
    /\ csv_in = <<>>
    /\ csv_out = NoCsv
    /\ csv_all = <<>>

StoryIds == 1..NumStories

TestIds == 1..NumTestCases

\* a test_id under which the test cases collection holds nothing
NoPoint == [story_id |-> 0, vector |-> NoneValue]

\* no store / find call has been made
NoStoreCall ==
    [op |-> "none", story_id |-> 0, limit |-> 0, before |-> NoneValue,
     after |-> NoneValue, embed_called |-> FALSE, sent |-> NoneValue,
     backend_failed |-> FALSE, reported |-> <<>>, raised |-> FALSE,
     results |-> <<>>, ret_id |-> NoneValue]

\* no vector store has been constructed
StoreIdle ==
    /\ vs_backend = "none"
    /\ us_points = [id \in StoryIds |-> NoneValue]
    /\ tc_points = [id \in TestIds |-> NoPoint]
    /\ vs_call = NoStoreCall

\* the two logical collections: USER_STORIES_COLLECTION / "UserStory" and
\* TEST_CASES_COLLECTION / "TestCase"
Collections == {"user_stories", "test_cases"}

Procs == {1, 2}

\* no constructor is running
BootIdle ==
    /\ bs_backend = "none"
    /\ bs_yaml = FALSE
    /\ bs_initial = {}
    /\ bs_server = {}
    /\ bs_proc = [p \in Procs |-> [pc |-> "idle", seen |-> {}]]

\* embed_texts has not been called
BatchIdle ==
    /\ batch_pc = "idle"
    /\ batch_texts = <<>>
    /\ batch_results = <<>>
    /\ wk = [w \in 1..MaxWorkers |-> NoWorker]

----------------------------------------------------------------------------
(* Revision graph, src/test_generation_agent.py                            *)

END == "END"

\* the router with an off-by-one comparison
should_continue_ge(rev, maxrev) ==
    IF rev >= maxrev THEN END ELSE "collect_feedback"

\* the router reading the revision_number of before the node's update
should_continue_prev(rev, maxrev) ==
    IF rev - 1 > maxrev THEN END ELSE "collect_feedback"

\* should_continue: the router of the conditional edge after generate_test_cases
should_continue(rev, maxrev) ==
    IF rev > maxrev THEN END ELSE "collect_feedback"

\* state.get("revision_number", 1)
RevisionOrDefault(rev) == IF rev = NoRevision THEN 1 ELSE rev

\* generate_test_cases_node without its "+ 1"
NextRevision_noinc(rev) == RevisionOrDefault(rev)

\* generate_test_cases_node: state.get("revision_number", 1) + 1
NextRevision(rev) == RevisionOrDefault(rev) + 1

\* a conditional edge after apply_feedback that checks the revision count
AfterApplyFeedback_checked == should_continue(revision_number + 1, max_revisions)

\* builder.add_edge("apply_feedback", ...): the node that follows apply_feedback
AfterApplyFeedback == "generate_test_cases"

GraphInit ==
    /\ QaIdle
    /\ CacheIdle
    /\ ServiceIdle
    /\ node = "extract_requirements"
    /\ initial_revision \in {NoRevision} \cup (0..MaxStartRevision)
    /\ revision_number = initial_revision
    /\ max_revisions \in 0..MaxRevisionsBound
    /\ test_scenarios = NoText
    /\ test_cases = NoText
    /\ test_cases_by = "none"
    /\ feedback = NoText
    /\ gen_calls = 0
    /\ collect_calls = 0
    /\ apply_calls = 0
    /\ BatchIdle
    /\ StoreIdle
    /\ BootIdle
    /\ CtorIdle
    /\ CsvIdle
    /\ AdoIdle

\* extract_requirements_node, then the edge to generate_test_scenarios.
\* extracted_requirements is only read by the next node, so it is not kept.
extract_requirements_node ==
    /\ node = "extract_requirements"
    /\ UNCHANGED notGraphVars
    /\ node' = "generate_test_scenarios"
    /\ UNCHANGED <<revision_number, max_revisions, initial_revision,
                   test_scenarios, test_cases, test_cases_by, feedback,
                   gen_calls, collect_calls, apply_calls>>

\* generate_test_scenarios_node, then the edge to generate_test_cases
generate_test_scenarios_node ==
    /\ node = "generate_test_scenarios"
    /\ UNCHANGED notGraphVars
    /\ \E response \in Responses : test_scenarios' = response
    /\ node' = "generate_test_cases"
    /\ UNCHANGED <<revision_number, max_revisions, initial_revision,
                   test_cases, test_cases_by, feedback,
                   gen_calls, collect_calls, apply_calls>>

\* generate_test_cases_node, then the conditional edge should_continue
generate_test_cases_node ==
    /\ node = "generate_test_cases"
    /\ UNCHANGED notGraphVars
    /\ \E response \in Responses : test_cases' = response
    /\ test_cases_by' = "generate_test_cases"
    /\ gen_calls' = gen_calls + 1
    /\ revision_number' = NextRevision(revision_number)
    /\ node' = should_continue(revision_number', max_revisions)
    /\ UNCHANGED <<max_revisions, initial_revision, test_scenarios, feedback,
                   collect_calls, apply_calls>>

\* collect_feedback_node, then the edge to apply_feedback
collect_feedback_node ==
    /\ node = "collect_feedback"
    /\ UNCHANGED notGraphVars
    /\ \E response \in Responses : feedback' = response
    /\ collect_calls' = collect_calls + 1
    /\ node' = "apply_feedback"
    /\ UNCHANGED <<revision_number, max_revisions, initial_revision,
                   test_scenarios, test_cases, test_cases_by, gen_calls,
                   apply_calls>>

\* apply_feedback_node, then the edge out of apply_feedback
apply_feedback_node ==
    /\ node = "apply_feedback"
    /\ UNCHANGED notGraphVars
    /\ \E response \in Responses : test_cases' = response
    /\ test_cases_by' = "apply_feedback"
    /\ apply_calls' = apply_calls + 1
    /\ revision_number' = revision_number + 1
    /\ node' = AfterApplyFeedback
    /\ UNCHANGED <<max_revisions, initial_revision, test_scenarios, feedback,
                   gen_calls, collect_calls>>

GraphNext ==
    \/ extract_requirements_node
    \/ generate_test_scenarios_node
    \/ generate_test_cases_node
    \/ collect_feedback_node
    \/ apply_feedback_node

GraphSpec == GraphInit /\ [][GraphNext]_vars

\* The graph runner executes the scheduled node whenever one is scheduled.
FairGraphSpec == GraphSpec /\ WF_vars(GraphNext)

----------------------------------------------------------------------------
(* Claims about the revision graph                                         *)

\* LLM calls that produce a test case set (generate_test_cases_node and
\* apply_feedback_node together)
GenerationCalls == gen_calls + apply_calls

\* C1: started with revision_number = 1, the run reaches END for every
\* max_revisions >= 0, and for max_revisions = 2 the generation LLM call is
\* made at most 3 times, whatever the feedback text is.
C1_RevisionLoopTerminates ==
    /\ (initial_revision = 1) ~> (node = END)
    /\ []((initial_revision = 1 /\ max_revisions = 2) => GenerationCalls <= 3)

C1_Witness ==
    /\ initial_revision = 1
    /\ max_revisions = 2
    /\ node = END
    /\ GenerationCalls = 3
    /\ collect_calls = 1

\* C2: every run of generate_test_cases_node leaves revision_number exactly one
\* higher (a missing key counts as 1), and the next node is END exactly when
\* the incremented revision_number exceeds max_revisions, collect_feedback
\* otherwise.
C2_GenerateIncrementsAndRoutes ==
    [][node = "generate_test_cases" =>
          /\ revision_number' =
                (IF revision_number = NoRevision THEN 1 ELSE revision_number) + 1
          /\ (node' = END) <=> (revision_number' > max_revisions)
          /\ (node' = "collect_feedback") <=> ~(revision_number' > max_revisions)
          /\ node' \in {END, "collect_feedback"}]_vars

C2_Witness ==
    /\ node = END
    /\ gen_calls = 2
    /\ collect_calls = 1
    /\ revision_number = max_revisions + 1

\* C3: whenever at least one feedback cycle ran, the test case set present at
\* END is the one apply_feedback_node produced (no generation call runs
\* between apply_feedback_node and the revision-count check).
C3_FinalSetFromApplyFeedback ==
    (node = END /\ apply_calls >= 1) => test_cases_by = "apply_feedback"

\* C4: with max_revisions = 1 and revision_number starting at 1 the run reaches
\* END with revision_number = 2 after exactly one generation call, and
\* collect_feedback and apply_feedback never run.
C4_SingleRevisionRun ==
    /\ (initial_revision = 1 /\ max_revisions = 1) ~>
           (node = END /\ revision_number = 2 /\ GenerationCalls = 1)
    /\ []((initial_revision = 1 /\ max_revisions = 1) =>
              /\ collect_calls = 0
              /\ apply_calls = 0
              /\ node \notin {"collect_feedback", "apply_feedback"}
              /\ gen_calls <= 1
              /\ (node = END => revision_number = 2 /\ gen_calls = 1))

C4_Witness ==
    /\ initial_revision = 1
    /\ max_revisions = 1
    /\ node = END
    /\ revision_number = 2
    /\ gen_calls = 1

\* C27: with revision_number starting at 1, the run reaches END after exactly
\* floor(max_revisions / 2) collect_feedback executions; each collect_feedback
\* is followed at once by one apply_feedback and then one generate_test_cases;
\* at END revision_number is 1 plus the number of generation calls.
C27_FeedbackCyclesHalved ==
    /\ (initial_revision = 1) ~>
           (node = END /\ collect_calls = max_revisions \div 2)
    /\ []((initial_revision = 1 /\ node = END) =>
              /\ collect_calls = max_revisions \div 2
              /\ apply_calls = collect_calls
              /\ gen_calls = collect_calls + 1
              /\ revision_number = 1 + GenerationCalls)
    /\ [][/\ node = "collect_feedback" =>
                (node' = "apply_feedback" /\ collect_calls' = collect_calls + 1)
          /\ node = "apply_feedback" =>
                /\ node' = "generate_test_cases"
                /\ apply_calls' = apply_calls + 1
                /\ apply_calls' = collect_calls
          /\ (node = "generate_test_cases" /\ collect_calls > 0) =>
                gen_calls' = apply_calls + 1
         ]_vars

C27_Witness ==
    /\ initial_revision = 1
    /\ max_revisions = 4
    /\ node = END
    /\ collect_calls = 2
    /\ apply_calls = 2
    /\ gen_calls = 3
    /\ revision_number = 6

----------------------------------------------------------------------------
(* QA graph, src/test_generation_agent/langgraph/qa_agent_graph.py         *)

\* What json.loads makes of an LLM response to the analysis prompt:
\* a JSON object, no JSON at all, or JSON that is not an object.
AnalysisResponses == {"object", "invalid", "nonobject"}

\* One element of the JSON array of test cases: an object with the fields of a
\* test case, an object without them (tc.get fills in "" and []), or anything
\* else (tc.get or the record's validation raises).
ItemKinds == {"object", "empty_object", "malformed"}

RECURSIVE SeqsUpTo(_, _)
SeqsUpTo(S, n) ==
    IF n = 0 THEN {<<>>}
    ELSE LET shorter == SeqsUpTo(S, n - 1)
         IN  shorter \cup {Append(q, x) : q \in {r \in shorter : Len(r) = n - 1}, x \in S}

\* LLM responses to the generation prompt: text json.loads rejects, JSON that
\* is not an array, or an array of items.
GenerationResponses ==
    {[json |-> "invalid", items |-> <<>>], [json |-> "nonarray", items |-> <<>>]}
    \cup {[json |-> "array", items |-> q] : q \in SeqsUpTo(ItemKinds, MaxItems)}

\* the summary process_user_story_with_langgraph builds from the final state
GeneratedSummary(cases) ==
    [test_cases |-> cases, summary |-> "Generated", count |-> Len(cases)]

\* the result of the fall-through after the event loop
DidNotComplete ==
    [test_cases |-> <<>>, summary |-> "Error", count |-> 0]

\* generate_test_cases, the try block: json.loads, then one TestCaseRecord per
\* element; only json.JSONDecodeError is caught.
ParsedTestCases(response) ==
    IF response.json = "invalid"
    THEN [raised |-> FALSE, failed |-> TRUE, cases |-> <<>>]
    ELSE IF response.json = "nonarray"
              \/ \E i \in 1..Len(response.items) : response.items[i] = "malformed"
    THEN [raised |-> TRUE, failed |-> FALSE, cases |-> <<>>]
    ELSE [raised |-> FALSE, failed |-> FALSE, cases |-> response.items]

QaInit ==
    /\ GraphIdle
    /\ CacheIdle
    /\ ServiceIdle
    /\ qa_pc = "analyze_user_story"
    /\ qa_analysis = "None"
    /\ qa_messages = 0
    /\ qa_test_cases = <<>>
    /\ qa_parse_failed = FALSE
    /\ qa_error_log = 0
    /\ qa_result = [test_cases |-> <<>>, summary |-> "none", count |-> 0]
    /\ BatchIdle
    /\ StoreIdle
    /\ BootIdle
    /\ CtorIdle
    /\ CsvIdle
    /\ AdoIdle

\* analyze_user_story, then the edge to generate_test_cases
analyze_user_story ==
    /\ qa_pc = "analyze_user_story"
    /\ UNCHANGED notQaVars
    /\ \E response \in AnalysisResponses :
          /\ qa_analysis' = IF response = "invalid" THEN "default" ELSE response
          /\ qa_error_log' = IF response = "invalid" THEN qa_error_log + 1 ELSE qa_error_log
    /\ qa_messages' = qa_messages + 2
    /\ qa_pc' = "generate_test_cases"
    /\ UNCHANGED <<qa_test_cases, qa_parse_failed, qa_result>>

\* generate_test_cases, then the edge to END
generate_test_cases ==
    /\ qa_pc = "generate_test_cases"
    /\ UNCHANGED notQaVars
    /\ IF qa_analysis = "nonobject"
       THEN \* analysis.get raises AttributeError while the prompt is built
            /\ qa_pc' = "raised"
            /\ UNCHANGED <<qa_test_cases, qa_parse_failed, qa_error_log, qa_messages>>
       ELSE \E response \in GenerationResponses :
              LET parsed == ParsedTestCases(response) IN
              IF parsed.raised
              THEN /\ qa_pc' = "raised"
                   /\ UNCHANGED <<qa_test_cases, qa_parse_failed, qa_error_log, qa_messages>>
              ELSE /\ qa_test_cases' = parsed.cases
                   /\ qa_parse_failed' = parsed.failed
                   /\ qa_error_log' = IF parsed.failed THEN qa_error_log + 1 ELSE qa_error_log
                   /\ qa_messages' = qa_messages + 2
                   /\ qa_pc' = "END"
    /\ UNCHANGED <<qa_analysis, qa_result>>

\* process_user_story_with_langgraph: the "end" event carries the final state
stream_end_event ==
    /\ qa_pc = "END"
    /\ UNCHANGED notQaVars
    /\ qa_result' = GeneratedSummary(qa_test_cases)
    /\ qa_pc' = "returned"
    /\ UNCHANGED <<qa_analysis, qa_messages, qa_test_cases,
                   qa_parse_failed, qa_error_log>>

\* process_user_story_with_langgraph: the stream is exhausted without an
\* "end" event
stream_exhausted ==
    /\ qa_pc = "END"
    /\ UNCHANGED notQaVars
    /\ qa_result' = DidNotComplete
    /\ qa_error_log' = qa_error_log + 1
    /\ qa_pc' = "returned"
    /\ UNCHANGED <<qa_analysis, qa_messages, qa_test_cases,
                   qa_parse_failed>>

QaNext ==
    \/ analyze_user_story
    \/ generate_test_cases
    \/ stream_end_event
    \/ stream_exhausted

QaSpec == QaInit /\ [][QaNext]_vars

----------------------------------------------------------------------------
(* Claims about the QA graph                                               *)

\* C5: when the generation response cannot be parsed as JSON, the run ends
\* with an explicit error indicator for the caller; it does not end with an
\* empty test case list under a "Generated 0 test cases" summary, and it never
\* returns a partially parsed list.
C5_ParseFailureIsReported ==
    (qa_pc = "returned" /\ qa_parse_failed) =>
        /\ qa_result.summary = "Error"
        /\ ~(qa_result.test_cases = <<>> /\ qa_result.summary = "Generated")
        /\ qa_result.test_cases = <<>>

----------------------------------------------------------------------------
(* EmbeddingCache, src/test_generation_agent/app/services/embedding.py     *)

\* _get_cache_key: the MD5 hex digest of the text; distinct texts of the model
\* have distinct digests.
CacheKey(text) == <<"md5", text>>

\* key in self.cache
HasKey(c, key) == \E i \in 1..Len(c) : c[i].key = key

\* self.cache.get(key)
Lookup(c, key) ==
    IF HasKey(c, key)
    THEN (CHOOSE e \in {c[i] : i \in 1..Len(c)} : e.key = key).value
    ELSE NoneValue

\* eviction of the most recently inserted key
OldestKey_newest(c) == c[Len(c)].key

\* next(iter(self.cache)): the first key in insertion order
OldestKey(c) == c[1].key

\* self.cache.pop(key), for a key that is present
Pop(c, key) == SelectSeq(c, LAMBDA e : e.key # key)

\* self.cache[key] = embedding: an existing key keeps its position
Store(c, key, value) ==
    IF HasKey(c, key)
    THEN [i \in 1..Len(c) |->
             IF c[i].key = key THEN [key |-> key, value |-> value] ELSE c[i]]
    ELSE Append(c, [key |-> key, value |-> value])

\* len(self.cache) >= self.max_size
IsFull(c, m) == Len(c) >= m

\* EmbeddingCache.set run without interruption: the cache afterwards, or the
\* StopIteration that next() raises on an empty dict.
CacheSetOp(c, m, text, value) ==
    IF IsFull(c, m)
    THEN IF Len(c) = 0
         THEN [raised |-> TRUE, cache |-> c]
         ELSE [raised |-> FALSE,
               cache  |-> Store(Pop(c, OldestKey(c)), CacheKey(text), value)]
    ELSE [raised |-> FALSE, cache |-> Store(c, CacheKey(text), value)]

\* EmbeddingCache.__init__
CacheInit ==
    /\ GraphIdle
    /\ QaIdle
    /\ ServiceIdle
    /\ cache = <<>>
    /\ max_size \in 0..MaxCacheSize
    /\ hits = 0
    /\ misses = 0
    /\ last_call = NoCall
    /\ set_log = <<>>
    /\ get_log = <<>>
    /\ last_set = [t \in Texts |-> NoneValue]
    /\ BatchIdle
    /\ StoreIdle
    /\ BootIdle
    /\ CtorIdle
    /\ CsvIdle
    /\ AdoIdle

\* EmbeddingCache.get called by a single-threaded caller
CacheGet(text) ==
    /\ Len(get_log) < MaxGets
    /\ LET result == Lookup(cache, CacheKey(text)) IN
          /\ hits' = IF result # NoneValue THEN hits + 1 ELSE hits
          /\ misses' = IF result # NoneValue THEN misses ELSE misses + 1
          /\ get_log' = Append(get_log, result)
          /\ last_call' = [op |-> "get", text |-> text, arg |-> NoneValue,
                           ret |-> result, raised |-> FALSE, calls |-> 0]
    /\ UNCHANGED <<cache, max_size, set_log, last_set>>
    /\ UNCHANGED notCacheVars

\* EmbeddingCache.set called by a single-threaded caller
CacheSet(text, value) ==
    /\ Len(set_log) <= MaxCacheSize
    /\ LET r == CacheSetOp(cache, max_size, text, value) IN
          /\ cache' = r.cache
          /\ last_call' = [op |-> "set", text |-> text, arg |-> value,
                           ret |-> NoneValue, raised |-> r.raised, calls |-> 0]
          /\ set_log' = IF r.raised THEN set_log ELSE Append(set_log, text)
          /\ last_set' = IF r.raised THEN last_set
                         ELSE [last_set EXCEPT ![text] = value]
    /\ UNCHANGED <<max_size, hits, misses, get_log>>
    /\ UNCHANGED notCacheVars

\* get_stats: hits / total if total > 0 else 0, as a fraction
HitRate_misses(h, mi) ==
    IF h + mi > 0 THEN [num |-> mi, den |-> h + mi] ELSE [num |-> 0, den |-> 1]

\* get_stats: hit_rate = self.hits / total if total > 0 else 0, as a fraction
HitRate(h, mi) ==
    IF h + mi > 0 THEN [num |-> h, den |-> h + mi] ELSE [num |-> 0, den |-> 1]

\* EmbeddingCache.get_stats
GetStats(c, m, h, mi) ==
    [size |-> Len(c), max_size |-> m, hits |-> h, misses |-> mi,
     hit_rate |-> HitRate(h, mi)]

CacheGetCall == \E text \in Texts : CacheGet(text)

CacheSetCall == \E text \in Texts, value \in Vectors : CacheSet(text, value)

CacheNext ==
    \/ CacheGetCall
    \/ CacheSetCall

CacheSpec == CacheInit /\ [][CacheNext]_vars

----------------------------------------------------------------------------
(* EmbeddingService, src/test_generation_agent/app/services/embedding.py   *)

\* What one call of the embedding backend does: return a vector, raise
\* ConnectionError / TimeoutError, or raise any other exception.
BackendOutcomes == {"ok", "transient", "fatal"}

\* _embed_text_with_retry: the tenacity decorator calls the backend again
\* after a ConnectionError / TimeoutError until stop_after_attempt, and
\* re-raises the last error; outcomes[k] is what the k-th backend call does.
RECURSIVE EmbedTextWithRetry_any(_, _)
\* a retry that repeats the backend call after every exception
EmbedTextWithRetry_any(outcomes, attempt) ==
    IF outcomes[attempt] # "ok" /\ attempt < MAX_RETRY_ATTEMPTS
    THEN EmbedTextWithRetry_any(outcomes, attempt + 1)
    ELSE [calls |-> attempt, result |-> outcomes[attempt]]

RECURSIVE EmbedTextWithRetry(_, _)
EmbedTextWithRetry(outcomes, attempt) ==
    IF outcomes[attempt] = "transient" /\ attempt < MAX_RETRY_ATTEMPTS
    THEN EmbedTextWithRetry(outcomes, attempt + 1)
    ELSE [calls |-> attempt, result |-> outcomes[attempt]]

\* how _embed_text_with_retry can end: the backend calls made and the last
\* outcome
RetryResults ==
    {EmbedTextWithRetry(outcomes, 1) :
        outcomes \in [1..MAX_RETRY_ATTEMPTS -> BackendOutcomes]}

\* whether set evicts an entry
Evicts(c, m) == IsFull(c, m) /\ Len(c) > 0

\* embed_text that returns the new embedding without caching it
AfterEmbedding_nocache(c, m, text, value) == [raised |-> FALSE, cache |-> c]

\* embed_text, after a successful backend call: self.cache.set(text, embedding)
AfterEmbedding(c, m, text, value) == CacheSetOp(c, m, text, value)

\* EmbeddingService.__init__ has returned: the cache is empty
ServiceInit ==
    /\ GraphIdle
    /\ QaIdle
    /\ cache = <<>>
    /\ max_size \in 0..MaxCacheSize
    /\ hits = 0
    /\ misses = 0
    /\ last_call = NoCall
    /\ set_log = <<>>
    /\ get_log = <<>>
    /\ last_set = [t \in Texts |-> NoneValue]
    /\ ServiceIdle
    /\ BatchIdle
    /\ StoreIdle
    /\ BootIdle
    /\ CtorIdle
    /\ CsvIdle
    /\ AdoIdle

\* the per-text record of embed_text results after a call: a text whose key
\* is no longer cached has none
EmbeddedAfter(c, ev, text, ret) ==
    [t \in Texts |->
        IF ~HasKey(c, CacheKey(t)) THEN NotEmbedded
        ELSE IF t = text /\ ret # NoneValue THEN [ret |-> ret, ev |-> ev]
        ELSE embedded[t]]

\* embed_text on a cache hit: return cached_embedding
EmbedTextHit(text) ==
    /\ calls_made < MaxEmbedCalls
    /\ Lookup(cache, CacheKey(text)) # NoneValue
    /\ hits' = hits + 1
    /\ last_call' = [op |-> "embed_text", text |-> text, arg |-> NoneValue,
                     ret |-> Lookup(cache, CacheKey(text)), raised |-> FALSE,
                     calls |-> 0]
    /\ calls_made' = calls_made + 1
    /\ retry_log' = <<>>
    /\ UNCHANGED <<cache, max_size, misses, set_log, get_log, last_set, backend_calls,
                   evictions, embedded>>
    /\ UNCHANGED notSvcVars

\* embed_text on a cache miss: _embed_text_with_retry, cache.set, return
EmbedTextMiss(text) ==
    /\ calls_made < MaxEmbedCalls
    /\ Lookup(cache, CacheKey(text)) = NoneValue
    /\ misses' = misses + 1
    /\ calls_made' = calls_made + 1
    /\ \E outcomes \in [1..MAX_RETRY_ATTEMPTS -> BackendOutcomes], value \in Vectors :
          LET r == EmbedTextWithRetry(outcomes, 1)
              stored == AfterEmbedding(cache, max_size, text, value)
              ok == r.result = "ok" /\ ~stored.raised
          IN  /\ backend_calls' = backend_calls + r.calls
              /\ retry_log' = SubSeq(outcomes, 1, r.calls)
              /\ cache' = IF ok THEN stored.cache ELSE cache
              /\ evictions' = IF ok /\ Evicts(cache, max_size)
                              THEN evictions + 1 ELSE evictions
              /\ last_call' = [op |-> "embed_text", text |-> text, arg |-> NoneValue,
                               ret |-> IF ok THEN value ELSE NoneValue,
                               raised |-> ~ok, calls |-> r.calls]
              /\ embedded' = EmbeddedAfter(cache', evictions', text,
                                           IF ok THEN value ELSE NoneValue)
    /\ UNCHANGED <<max_size, hits, set_log, get_log, last_set>>
    /\ UNCHANGED notSvcVars

embed_text_hit == \E text \in Texts : EmbedTextHit(text)

embed_text_miss == \E text \in Texts : EmbedTextMiss(text)

ServiceNext ==
    \/ embed_text_hit
    \/ embed_text_miss

ServiceSpec == ServiceInit /\ [][ServiceNext]_vars

----------------------------------------------------------------------------
(* EmbeddingService.embed_texts and the _batch_embed calls it submits to   *)
(* its ThreadPoolExecutor. The threads share self.cache, which has no      *)
(* lock, so every access of a worker to the dict or a counter is one step. *)

\* the vector the backend returns for a text (named by the text it embeds)
BackendVector(text) == text

\* range(0, len(texts), batch_size): first and last index of sub-batch w
BatchLo(w) == (w - 1) * BATCH_SIZE + 1

BatchHi(w) == IF w * BATCH_SIZE < Len(batch_texts) THEN w * BATCH_SIZE
              ELSE Len(batch_texts)

Workers == {w \in 1..MaxWorkers : BatchLo(w) <= Len(batch_texts)}

\* batch_texts[j] of worker w
TextAt(w, j) == batch_texts[BatchLo(w) + j - 1]

\* _batch_embed as submitted: locals before the cache loop starts
Submitted(texts, w) ==
    IF (w - 1) * BATCH_SIZE + 1 <= Len(texts)
    THEN [pc |-> "get_lookup", i |-> 1, got |-> NoneValue,
          res |-> [j \in 1..((IF w * BATCH_SIZE < Len(texts) THEN w * BATCH_SIZE
                              ELSE Len(texts)) - (w - 1) * BATCH_SIZE) |-> NoneValue],
          todo |-> <<>>, mode |-> "batch", emb |-> NoneValue,
          used |-> 0, oldest |-> <<>>,
          how |-> [j \in 1..((IF w * BATCH_SIZE < Len(texts) THEN w * BATCH_SIZE
                              ELSE Len(texts)) - (w - 1) * BATCH_SIZE) |-> "none"],
          batch_raised |-> FALSE]
    ELSE NoWorker

\* embed_texts is called on a freshly constructed service and has submitted
\* every sub-batch to the executor
BatchInit ==
    /\ GraphIdle
    /\ QaIdle
    /\ ServiceIdle
    /\ cache = <<>>
    /\ max_size \in 0..MaxCacheSize
    /\ hits = 0
    /\ misses = 0
    /\ last_call = NoCall
    /\ set_log = <<>>
    /\ get_log = <<>>
    /\ last_set = [t \in Texts |-> NoneValue]
    /\ batch_texts \in SeqsUpTo(Texts, MaxBatchInput)
    /\ batch_pc = "running"
    /\ batch_results = <<>>
    /\ wk = [w \in 1..MaxWorkers |-> Submitted(batch_texts, w)]
    /\ StoreIdle
    /\ BootIdle
    /\ CtorIdle
    /\ CsvIdle
    /\ AdoIdle

\* the worker moves on after the to_embed entry i: the next entry, or return
Advance(rec, w) ==
    IF rec.i < Len(rec.todo)
    THEN IF rec.mode = "batch"
         THEN LET e == BackendVector(TextAt(w, rec.todo[rec.i + 1])) IN
              [rec EXCEPT !.i = rec.i + 1, !.emb = e,
                          !.res = [rec.res EXCEPT ![rec.todo[rec.i + 1]] = e],
                          !.how = [rec.how EXCEPT ![rec.todo[rec.i + 1]] = "batch"],
                          !.pc = "set_check"]
         ELSE [rec EXCEPT !.i = rec.i + 1, !.pc = "fallback_embed"]
    ELSE [rec EXCEPT !.pc = "done"]

\* cache.set raised inside _batch_embed: in the batch loop the outer except
\* starts the per-item fallback over; in the fallback loop the inner except
\* writes a zero vector for the item
OnSetException(rec, w) ==
    IF rec.mode = "batch"
    THEN [rec EXCEPT !.mode = "fallback", !.i = 1, !.pc = "fallback_embed"]
    ELSE Advance([rec EXCEPT !.res = [rec.res EXCEPT ![rec.todo[rec.i]] = ZeroVector]], w)

\* cache.get, first half: result = self.cache.get(key)
GetLookup(w) ==
    /\ wk[w].pc = "get_lookup"
    /\ wk' = [wk EXCEPT ![w].got = Lookup(cache, CacheKey(TextAt(w, wk[w].i))),
                        ![w].pc = "get_count"]
    /\ UNCHANGED <<cacheVars, batch_pc, batch_texts, batch_results>>
    /\ UNCHANGED notBatchVars

\* cache.get, second half: the hit / miss counter; then the loop body of
\* _batch_embed files the text under results or to_embed
GetCount(w) ==
    /\ wk[w].pc = "get_count"
    /\ LET rec == wk[w]
           hit == rec.got # NoneValue
           res2 == IF hit THEN [rec.res EXCEPT ![rec.i] = rec.got] ELSE rec.res
           todo2 == IF hit THEN rec.todo ELSE Append(rec.todo, rec.i)
           how2 == IF hit THEN [rec.how EXCEPT ![rec.i] = "hit"] ELSE rec.how
       IN  /\ hits' = IF hit THEN hits + 1 ELSE hits
           /\ misses' = IF hit THEN misses ELSE misses + 1
           /\ wk' = [wk EXCEPT ![w] =
                  IF rec.i < Len(rec.res)
                  THEN [rec EXCEPT !.res = res2, !.todo = todo2, !.how = how2,
                                   !.i = rec.i + 1, !.pc = "get_lookup"]
                  ELSE IF todo2 = <<>>
                  THEN [rec EXCEPT !.res = res2, !.todo = todo2, !.how = how2,
                                   !.pc = "done"]
                  ELSE [rec EXCEPT !.res = res2, !.todo = todo2, !.how = how2,
                                   !.pc = "backend"]]
    /\ UNCHANGED <<cache, max_size, batch_pc, batch_texts, batch_results>>
    /\ UNCHANGED notBatchVars

\* embed_documents / encode on the cache misses: it returns the embeddings,
\* or raises and the per-item fallback starts
BackendBatch(w) ==
    /\ wk[w].pc = "backend"
    /\ \E outcome \in {"ok", "raise"} :
          LET rec == wk[w]
              e == BackendVector(TextAt(w, rec.todo[1]))
          IN  wk' = [wk EXCEPT ![w] =
                 IF outcome = "ok"
                 THEN [rec EXCEPT !.mode = "batch", !.i = 1, !.emb = e,
                                  !.res = [rec.res EXCEPT ![rec.todo[1]] = e],
                                  !.how = [rec.how EXCEPT ![rec.todo[1]] = "batch"],
                                  !.pc = "set_check"]
                 ELSE [rec EXCEPT !.mode = "fallback", !.i = 1,
                                  !.batch_raised = TRUE,
                                  !.pc = "fallback_embed"]]
    /\ UNCHANGED <<cacheVars, batch_pc, batch_texts, batch_results>>
    /\ UNCHANGED notBatchVars

\* a fallback loop that also caches the zero vector of a failed item
FallbackEmbed_cachezero(w) ==
    /\ wk[w].pc = "fallback_embed"
    /\ \E outcome \in {"ok", "raise"} :
          LET rec == wk[w]
              e == BackendVector(TextAt(w, rec.todo[rec.i]))
          IN  /\ wk' = [wk EXCEPT ![w] =
                    IF outcome = "ok"
                    THEN [rec EXCEPT !.emb = e,
                                     !.res = [rec.res EXCEPT ![rec.todo[rec.i]] = e],
                                     !.how = [rec.how EXCEPT ![rec.todo[rec.i]] = "fallback_ok"],
                                     !.pc = "set_check"]
                    ELSE Advance([rec EXCEPT
                                     !.res = [rec.res EXCEPT ![rec.todo[rec.i]] = ZeroVector],
                                     !.how = [rec.how EXCEPT ![rec.todo[rec.i]] = "fallback_failed"]],
                                 w)]
              /\ cache' = IF outcome = "ok" THEN cache
                          ELSE Store(cache, CacheKey(TextAt(w, rec.todo[rec.i])), ZeroVector)
    /\ UNCHANGED <<max_size, hits, misses, batch_pc, batch_texts, batch_results>>
    /\ UNCHANGED notBatchVars

\* the fallback loop: _embed_text_with_retry returns the embedding, or raises
\* and the item gets a zero vector
FallbackEmbed(w) ==
    /\ wk[w].pc = "fallback_embed"
    /\ \E outcome \in {"ok", "raise"} :
          LET rec == wk[w]
              e == BackendVector(TextAt(w, rec.todo[rec.i]))
          IN  wk' = [wk EXCEPT ![w] =
                 IF outcome = "ok"
                 THEN [rec EXCEPT !.emb = e,
                                  !.res = [rec.res EXCEPT ![rec.todo[rec.i]] = e],
                                  !.how = [rec.how EXCEPT ![rec.todo[rec.i]] = "fallback_ok"],
                                  !.pc = "set_check"]
                 ELSE Advance([rec EXCEPT
                                  !.res = [rec.res EXCEPT ![rec.todo[rec.i]] = ZeroVector],
                                  !.how = [rec.how EXCEPT ![rec.todo[rec.i]] = "fallback_failed"]],
                              w)]
    /\ UNCHANGED <<cacheVars, batch_pc, batch_texts, batch_results>>
    /\ UNCHANGED notBatchVars

\* cache.set: if len(self.cache) >= self.max_size
SetCheck(w) ==
    /\ wk[w].pc = "set_check"
    /\ wk' = [wk EXCEPT ![w].pc = IF IsFull(cache, max_size) THEN "set_iter"
                                  ELSE "set_store"]
    /\ UNCHANGED <<cacheVars, batch_pc, batch_texts, batch_results>>
    /\ UNCHANGED notBatchVars

\* cache.set: iter(self.cache); the iterator remembers the size of the dict
SetIter(w) ==
    /\ wk[w].pc = "set_iter"
    /\ wk' = [wk EXCEPT ![w].used = Len(cache), ![w].pc = "set_next"]
    /\ UNCHANGED <<cacheVars, batch_pc, batch_texts, batch_results>>
    /\ UNCHANGED notBatchVars

\* cache.set: oldest_key = next(...); RuntimeError if the dict changed size
\* since iter(), StopIteration if it is empty
SetNext(w) ==
    /\ wk[w].pc = "set_next"
    /\ wk' = [wk EXCEPT ![w] =
                 IF Len(cache) # wk[w].used \/ Len(cache) = 0
                 THEN OnSetException(wk[w], w)
                 ELSE [wk[w] EXCEPT !.oldest = OldestKey(cache), !.pc = "set_pop"]]
    /\ UNCHANGED <<cacheVars, batch_pc, batch_texts, batch_results>>
    /\ UNCHANGED notBatchVars

\* cache.set: self.cache.pop(oldest_key); KeyError if the key is gone
SetPop(w) ==
    /\ wk[w].pc = "set_pop"
    /\ IF HasKey(cache, wk[w].oldest)
       THEN /\ cache' = Pop(cache, wk[w].oldest)
            /\ wk' = [wk EXCEPT ![w].pc = "set_store"]
       ELSE /\ cache' = cache
            /\ wk' = [wk EXCEPT ![w] = OnSetException(wk[w], w)]
    /\ UNCHANGED <<max_size, hits, misses, batch_pc, batch_texts, batch_results>>
    /\ UNCHANGED notBatchVars

\* cache.set: self.cache[key] = embedding; then the next to_embed entry
SetStore(w) ==
    /\ wk[w].pc = "set_store"
    /\ cache' = Store(cache, CacheKey(TextAt(w, wk[w].todo[wk[w].i])), wk[w].emb)
    /\ wk' = [wk EXCEPT ![w] = Advance(wk[w], w)]
    /\ UNCHANGED <<max_size, hits, misses, batch_pc, batch_texts, batch_results>>
    /\ UNCHANGED notBatchVars

RECURSIVE Flatten(_, _)
\* the collection loop of embed_texts: results[idx] = batch_results[i] for
\* the futures in submission order
Flatten(f, w) ==
    IF w > MaxWorkers THEN <<>> ELSE f[w].res \o Flatten(f, w + 1)

\* a slot the workers left at None gets a zero vector
FillMissing(r) == [i \in 1..Len(r) |-> IF r[i] = NoneValue THEN ZeroVector ELSE r[i]]

\* embed_texts: if not texts: return []
ReturnEmpty ==
    /\ batch_pc = "running"
    /\ batch_texts = <<>>
    /\ batch_results' = <<>>
    /\ batch_pc' = "returned"
    /\ UNCHANGED <<cacheVars, batch_texts, wk>>
    /\ UNCHANGED notBatchVars

\* embed_texts: every future has a result; collect them and return
CollectResults ==
    /\ batch_pc = "running"
    /\ batch_texts # <<>>
    /\ \A w \in Workers : wk[w].pc = "done"
    /\ batch_results' = FillMissing(Flatten(wk, 1))
    /\ batch_pc' = "returned"
    /\ UNCHANGED <<cacheVars, batch_texts, wk>>
    /\ UNCHANGED notBatchVars

\* embed_text called on the same service after embed_texts has returned:
\* cache.get, and on a miss _embed_text_with_retry and cache.set
LaterEmbedText(text) ==
    /\ batch_pc = "returned"
    /\ last_call.op = "none"
    /\ LET cached == Lookup(cache, CacheKey(text)) IN
       IF cached # NoneValue
       THEN /\ hits' = hits + 1
            /\ last_call' = [op |-> "embed_text", text |-> text, arg |-> NoneValue,
                             ret |-> cached, raised |-> FALSE, calls |-> 0]
            /\ UNCHANGED <<cache, misses>>
       ELSE /\ misses' = misses + 1
            /\ \E r \in RetryResults :
                  LET stored == AfterEmbedding(cache, max_size, text, BackendVector(text))
                      ok == r.result = "ok" /\ ~stored.raised
                  IN  /\ cache' = IF ok THEN stored.cache ELSE cache
                      /\ last_call' = [op |-> "embed_text", text |-> text,
                                       arg |-> NoneValue,
                                       ret |-> IF ok THEN BackendVector(text) ELSE NoneValue,
                                       raised |-> ~ok, calls |-> r.calls]
            /\ UNCHANGED hits
    /\ UNCHANGED <<max_size, set_log, get_log, last_set>>
    /\ UNCHANGED <<batchVars, svcVars>>
    /\ UNCHANGED <<graphVars, qaVars, storeVars, bootVars, ctorVars, csvVars, adoVars>>

get_lookup == \E w \in Workers : GetLookup(w)

\* the later call embeds one of the texts whose fallback embedding failed
later_embed_text ==
    \E w \in Workers : \E j \in 1..Len(wk[w].how) :
        /\ wk[w].how[j] = "fallback_failed"
        /\ LaterEmbedText(TextAt(w, j))

get_count == \E w \in Workers : GetCount(w)

backend_batch == \E w \in Workers : BackendBatch(w)

fallback_embed == \E w \in Workers : FallbackEmbed(w)

set_check == \E w \in Workers : SetCheck(w)

set_iter == \E w \in Workers : SetIter(w)

set_next == \E w \in Workers : SetNext(w)

set_pop == \E w \in Workers : SetPop(w)

set_store == \E w \in Workers : SetStore(w)

BatchNext ==
    \/ get_lookup
    \/ get_count
    \/ backend_batch
    \/ fallback_embed
    \/ set_check
    \/ set_iter
    \/ set_next
    \/ set_pop
    \/ set_store
    \/ ReturnEmpty
    \/ CollectResults
    \/ later_embed_text

BatchSpec == BatchInit /\ [][BatchNext]_vars

----------------------------------------------------------------------------
(* QdrantVectorStore and WeaviateVectorStore,                              *)
(* src/test_generation_agent/app/services/vector_store.py. The server is   *)
(* modelled by its two collections; a search answers with the stored       *)
(* points nearest to the query vector, best first, at most limit of them.  *)

\* what a backend call does: succeed, or raise (server down, bad request)
StoreOutcomes == {"ok", "fail"}

\* what Weaviate's query.do() does: a result with data.Get.<class>, a result
\* without it, or raise
QueryOutcomes == {"ok", "no_data", "fail"}

\* the score the server reports for a stored vector against a query vector
Score(v, q) == IF v = q THEN 100 ELSE IF v > q THEN 100 - 10 * (v - q)
                                      ELSE 100 - 10 * (q - v)

\* the user stories collection as points: the payload's story_id is the id
StoryPoints == [id \in StoryIds |-> [story_id |-> id, vector |-> us_points[id]]]

RECURSIVE Ranked(_, _, _, _)
\* the rankings of at most k of the stored ids, best score first; ids of equal
\* score come in either order
Ranked(points, q, remaining, k) ==
    IF k = 0 \/ remaining = {} THEN {<<>>}
    ELSE LET best == {id \in remaining :
                        \A other \in remaining :
                            Score(points[id].vector, q) >= Score(points[other].vector, q)}
         IN  UNION {{<<id>> \o rest : rest \in Ranked(points, q, remaining \ {id}, k - 1)} :
                    id \in best}

\* the hits a search may report: the stored points nearest to q, best first,
\* at most limit
SearchHits(points, q, limit) ==
    LET stored == {id \in DOMAIN points : points[id].vector # NoneValue}
    IN  {[i \in 1..Len(r) |-> [id |-> r[i], story_id |-> points[r[i]].story_id,
                               score |-> Score(points[r[i]].vector, q)]] :
            r \in Ranked(points, q, stored, limit)}

\* a lazy embedding that asks the embedding service every time
LazyEmbedding_always(embedding) ==
    {[called |-> TRUE, raised |-> TRUE, embedding |-> NoneValue]}
    \cup {[called |-> TRUE, raised |-> FALSE, embedding |-> value] : value \in Vectors}

\* if not <entity>.embedding: <entity>.embedding = embedding_service.embed_...
\* the ways it can end: not needed, the service raises, the service returns
LazyEmbedding(embedding) ==
    IF embedding # NoneValue
    THEN {[called |-> FALSE, raised |-> FALSE, embedding |-> embedding]}
    ELSE {[called |-> TRUE, raised |-> TRUE, embedding |-> NoneValue]}
         \cup {[called |-> TRUE, raised |-> FALSE, embedding |-> value] : value \in Vectors}

\* results built by inserting every payload at the front
QdrantResults_reversed(found) ==
    [i \in 1..Len(found) |-> [id |-> found[Len(found) + 1 - i].id,
                              story_id |-> found[Len(found) + 1 - i].story_id,
                              similarity_score |-> found[Len(found) + 1 - i].score]]

\* Qdrant: payload["similarity_score"] = result.score; results.append(payload)
QdrantResults(found) ==
    [i \in 1..Len(found) |-> [id |-> found[i].id, story_id |-> found[i].story_id,
                             similarity_score |-> found[i].score]]

\* Weaviate find_similar_stories: the loop that skips the query's own
\* story_id and copies the certainty into similarity_score
WeaviateStoryResults(found, story_id) ==
    LET kept == SelectSeq(found, LAMBDA h : h.story_id # story_id)
    IN  [i \in 1..Len(kept) |-> [id |-> kept[i].id, story_id |-> kept[i].story_id,
                                 similarity_score |-> kept[i].score]]

\* Weaviate find_similar_test_cases: every reported test case is returned
WeaviateTestCaseResults(found) ==
    [i \in 1..Len(found) |-> [id |-> found[i].id, story_id |-> found[i].story_id,
                             similarity_score |-> found[i].score]]

\* The caller of the store: it stores an entity or searches with a story, or
\* it stores a story and then searches with that same story object
CanStore == vs_call.op = "none"

CanFind(id, emb) ==
    \/ vs_call.op = "none"
    \/ /\ vs_call.op = "store_user_story"
       /\ ~vs_call.raised
       /\ id = vs_call.story_id
       /\ emb = vs_call.after

\* The constructor has returned: both collections exist and hold whatever
\* earlier runs stored. No operation reads both collections, so one of them
\* starts with arbitrary content and the other one empty.
StoreInit ==
    /\ GraphIdle
    /\ QaIdle
    /\ CacheIdle
    /\ ServiceIdle
    /\ BatchIdle
    /\ BootIdle
    /\ CtorIdle
    /\ CsvIdle
    /\ AdoIdle
    /\ vs_backend \in {"qdrant", "weaviate"}
    /\ \/ /\ us_points \in [StoryIds -> {NoneValue} \cup Vectors]
          /\ tc_points = [id \in TestIds |-> NoPoint]
       \/ /\ us_points = [id \in StoryIds |-> NoneValue]
          /\ tc_points \in [TestIds -> {[story_id |-> 0, vector |-> v] :
                                            v \in {NoneValue} \cup Vectors}]
    /\ vs_call = NoStoreCall

\* the record of a store / find call that ended in the lazy embedding step or
\* went on to the backend
CallRecord(op, id, limit, before, lz) ==
    [NoStoreCall EXCEPT !.op = op, !.story_id = id, !.limit = limit,
                        !.before = before, !.after = lz.embedding,
                        !.embed_called = lz.called,
                        !.sent = lz.embedding,
                        !.raised = lz.raised]

\* QdrantVectorStore.store_user_story: lazy embedding, client.upsert; nothing is
\* caught
QdrantStoreUserStory(id, emb) ==
    /\ vs_backend = "qdrant"
    /\ CanStore
    /\ \E lz \in LazyEmbedding(emb) :
          IF lz.raised
          THEN /\ vs_call' = CallRecord("store_user_story", id, 0, emb, lz)
               /\ us_points' = us_points
          ELSE \E bo \in StoreOutcomes :
                  LET failed == bo = "fail"
                      rec == CallRecord("store_user_story", id, 0, emb, lz)
                  IN  /\ us_points' = IF failed THEN us_points
                                      ELSE [us_points EXCEPT ![id] = lz.embedding]
                      /\ vs_call' = [rec EXCEPT !.backend_failed = failed,
                                                !.raised = failed,
                                                !.ret_id = IF failed THEN NoneValue ELSE id]
    /\ UNCHANGED <<vs_backend, tc_points>>
    /\ UNCHANGED notStoreVars

\* QdrantVectorStore.store_test_case: a missing test_id is a fresh uuid4; lazy
\* embedding, client.upsert; nothing is caught
QdrantStoreTestCase(test_id, emb) ==
    /\ vs_backend = "qdrant"
    /\ CanStore
    /\ \E tid \in (IF test_id = NoneValue THEN TestIds ELSE {test_id}),
          lz \in LazyEmbedding(emb) :
          IF lz.raised
          THEN /\ vs_call' = CallRecord("store_test_case", 0, 0, emb, lz)
               /\ tc_points' = tc_points
          ELSE \E bo \in StoreOutcomes :
                  LET failed == bo = "fail"
                      rec == CallRecord("store_test_case", 0, 0, emb, lz)
                  IN  /\ tc_points' = IF failed THEN tc_points
                                      ELSE [tc_points EXCEPT ![tid] =
                                               [story_id |-> 0, vector |-> lz.embedding]]
                      /\ vs_call' = [rec EXCEPT !.backend_failed = failed,
                                                !.raised = failed,
                                                !.ret_id = IF failed THEN NoneValue ELSE tid]
    /\ UNCHANGED <<vs_backend, us_points>>
    /\ UNCHANGED notStoreVars

\* QdrantVectorStore.find_similar_stories: lazy embedding, client.search, every
\* hit is returned with its score; nothing is caught
QdrantFindSimilarStories(id, emb, limit) ==
    /\ vs_backend = "qdrant"
    /\ CanFind(id, emb)
    /\ \E lz \in LazyEmbedding(emb) :
          LET rec == CallRecord("find_similar_stories", id, limit, emb, lz)
          IN  \/ /\ lz.raised
                 /\ vs_call' = rec
              \/ /\ ~lz.raised
                 /\ vs_call' = [rec EXCEPT !.backend_failed = TRUE, !.raised = TRUE]
              \/ /\ ~lz.raised
                 /\ \E found \in SearchHits(StoryPoints, lz.embedding, limit) :
                       vs_call' = [rec EXCEPT !.reported = found,
                                              !.results = QdrantResults(found)]
    /\ UNCHANGED <<vs_backend, us_points, tc_points>>
    /\ UNCHANGED notStoreVars

\* QdrantVectorStore.find_similar_test_cases: as find_similar_stories, on the
\* test cases collection
QdrantFindSimilarTestCases(id, emb, limit) ==
    /\ vs_backend = "qdrant"
    /\ CanFind(id, emb)
    /\ \E lz \in LazyEmbedding(emb) :
          LET rec == CallRecord("find_similar_test_cases", id, limit, emb, lz)
          IN  \/ /\ lz.raised
                 /\ vs_call' = rec
              \/ /\ ~lz.raised
                 /\ vs_call' = [rec EXCEPT !.backend_failed = TRUE, !.raised = TRUE]
              \/ /\ ~lz.raised
                 /\ \E found \in SearchHits(tc_points, lz.embedding, limit) :
                       vs_call' = [rec EXCEPT !.reported = found,
                                              !.results = QdrantResults(found)]
    /\ UNCHANGED <<vs_backend, us_points, tc_points>>
    /\ UNCHANGED notStoreVars

\* WeaviateVectorStore.store_user_story: lazy embedding, data_object.create
\* under uuid5(story_id), which fails for an id that exists; re-raises
WeaviateStoreUserStory(id, emb) ==
    /\ vs_backend = "weaviate"
    /\ CanStore
    /\ \E lz \in LazyEmbedding(emb) :
          IF lz.raised
          THEN /\ vs_call' = CallRecord("store_user_story", id, 0, emb, lz)
               /\ us_points' = us_points
          ELSE \E bo \in StoreOutcomes :
                  LET failed == bo = "fail" \/ us_points[id] # NoneValue
                      rec == CallRecord("store_user_story", id, 0, emb, lz)
                  IN  /\ us_points' = IF failed THEN us_points
                                      ELSE [us_points EXCEPT ![id] = lz.embedding]
                      /\ vs_call' = [rec EXCEPT !.backend_failed = failed,
                                                !.raised = failed,
                                                !.ret_id = IF failed THEN NoneValue ELSE id]
    /\ UNCHANGED <<vs_backend, tc_points>>
    /\ UNCHANGED notStoreVars

\* WeaviateVectorStore.store_test_case: lazy embedding, data_object.create
\* under uuid5(test_id), which fails for an id that exists; re-raises
WeaviateStoreTestCase(test_id, emb) ==
    /\ vs_backend = "weaviate"
    /\ CanStore
    /\ \E tid \in (IF test_id = NoneValue THEN TestIds ELSE {test_id}),
          lz \in LazyEmbedding(emb) :
          IF lz.raised
          THEN /\ vs_call' = CallRecord("store_test_case", 0, 0, emb, lz)
               /\ tc_points' = tc_points
          ELSE \E bo \in StoreOutcomes :
                  LET failed == bo = "fail" \/ tc_points[tid].vector # NoneValue
                      rec == CallRecord("store_test_case", 0, 0, emb, lz)
                  IN  /\ tc_points' = IF failed THEN tc_points
                                      ELSE [tc_points EXCEPT ![tid] =
                                               [story_id |-> 0, vector |-> lz.embedding]]
                      /\ vs_call' = [rec EXCEPT !.backend_failed = failed,
                                                !.raised = failed,
                                                !.ret_id = IF failed THEN NoneValue ELSE tid]
    /\ UNCHANGED <<vs_backend, us_points>>
    /\ UNCHANGED notStoreVars

\* WeaviateVectorStore.find_similar_stories: lazy embedding outside the try;
\* query.do() raising or answering without data gives []
WeaviateFindSimilarStories(id, emb, limit) ==
    /\ vs_backend = "weaviate"
    /\ CanFind(id, emb)
    /\ \E lz \in LazyEmbedding(emb) :
          LET rec == CallRecord("find_similar_stories", id, limit, emb, lz)
          IN  \/ /\ lz.raised
                 /\ vs_call' = rec
              \/ /\ ~lz.raised
                 /\ \E qo \in QueryOutcomes \ {"ok"} :
                       vs_call' = [rec EXCEPT !.backend_failed = (qo = "fail")]
              \/ /\ ~lz.raised
                 /\ \E found \in SearchHits(StoryPoints, lz.embedding, limit) :
                       vs_call' = [rec EXCEPT !.reported = found,
                                              !.results = WeaviateStoryResults(found, id)]
    /\ UNCHANGED <<vs_backend, us_points, tc_points>>
    /\ UNCHANGED notStoreVars

\* WeaviateVectorStore.find_similar_test_cases: lazy embedding outside the
\* try; query.do() raising or answering without data gives []
WeaviateFindSimilarTestCases(id, emb, limit) ==
    /\ vs_backend = "weaviate"
    /\ CanFind(id, emb)
    /\ \E lz \in LazyEmbedding(emb) :
          LET rec == CallRecord("find_similar_test_cases", id, limit, emb, lz)
          IN  \/ /\ lz.raised
                 /\ vs_call' = rec
              \/ /\ ~lz.raised
                 /\ \E qo \in QueryOutcomes \ {"ok"} :
                       vs_call' = [rec EXCEPT !.backend_failed = (qo = "fail")]
              \/ /\ ~lz.raised
                 /\ \E found \in SearchHits(tc_points, lz.embedding, limit) :
                       vs_call' = [rec EXCEPT !.reported = found,
                                              !.results = WeaviateTestCaseResults(found)]
    /\ UNCHANGED <<vs_backend, us_points, tc_points>>
    /\ UNCHANGED notStoreVars

\* the embedding field of the entity a caller passes
Embeddings == {NoneValue} \cup Vectors

Limits == 1..MaxLimit

qdrant_store_user_story ==
    \E id \in StoryIds, emb \in Embeddings : QdrantStoreUserStory(id, emb)

qdrant_store_test_case ==
    \E test_id \in {NoneValue} \cup TestIds, emb \in Embeddings :
        QdrantStoreTestCase(test_id, emb)

qdrant_find_similar_stories ==
    \E id \in StoryIds, emb \in Embeddings, limit \in Limits :
        QdrantFindSimilarStories(id, emb, limit)

qdrant_find_similar_test_cases ==
    \E id \in StoryIds, emb \in Embeddings, limit \in Limits :
        QdrantFindSimilarTestCases(id, emb, limit)

weaviate_store_user_story ==
    \E id \in StoryIds, emb \in Embeddings : WeaviateStoreUserStory(id, emb)

weaviate_store_test_case ==
    \E test_id \in {NoneValue} \cup TestIds, emb \in Embeddings :
        WeaviateStoreTestCase(test_id, emb)

weaviate_find_similar_stories ==
    \E id \in StoryIds, emb \in Embeddings, limit \in Limits :
        WeaviateFindSimilarStories(id, emb, limit)

weaviate_find_similar_test_cases ==
    \E id \in StoryIds, emb \in Embeddings, limit \in Limits :
        WeaviateFindSimilarTestCases(id, emb, limit)

StoreNext ==
    \/ qdrant_store_user_story
    \/ qdrant_store_test_case
    \/ qdrant_find_similar_stories
    \/ qdrant_find_similar_test_cases
    \/ weaviate_store_user_story
    \/ weaviate_store_test_case
    \/ weaviate_find_similar_stories
    \/ weaviate_find_similar_test_cases

StoreSpec == StoreInit /\ [][StoreNext]_vars

----------------------------------------------------------------------------
(* Two processes run QdrantVectorStore.__init__ or                          *)
(* WeaviateVectorStore.__init__ against one server. Every request to the   *)
(* server is one step. The server rejects the creation of a collection     *)
(* that exists, and the client raises.                                     *)

BootInit ==
    /\ GraphIdle
    /\ QaIdle
    /\ CacheIdle
    /\ ServiceIdle
    /\ BatchIdle
    /\ StoreIdle
    /\ bs_backend \in {"qdrant", "weaviate"}
    /\ bs_yaml \in BOOLEAN
    /\ bs_initial \in SUBSET Collections
    /\ bs_server = bs_initial
    /\ bs_proc = [p \in Procs |-> [pc |-> "get", seen |-> {}]]
    /\ CtorIdle
    /\ CsvIdle
    /\ AdoIdle

\* create_collection / create_class: the server's collections afterwards and
\* whether the call raised
CreateCollection(server, name) ==
    IF name \in server THEN [raised |-> TRUE, server |-> server]
    ELSE [raised |-> FALSE, server |-> server \cup {name}]

\* create the collection unless the names read earlier hold it, then go on
CreateIfUnseen(p, name, next) ==
    LET r == CreateCollection(bs_server, name) IN
    IF name \in bs_proc[p].seen
    THEN /\ bs_proc' = [bs_proc EXCEPT ![p].pc = next]
         /\ bs_server' = bs_server
    ELSE /\ bs_proc' = [bs_proc EXCEPT ![p].pc = IF r.raised THEN "raised" ELSE next]
         /\ bs_server' = r.server

\* _ensure_collections_exist: collections = self.client.get_collections()
QdrantGetCollections(p) ==
    /\ bs_backend = "qdrant"
    /\ bs_proc[p].pc = "get"
    /\ bs_proc' = [bs_proc EXCEPT ![p].seen = bs_server, ![p].pc = "user_stories"]
    /\ UNCHANGED <<bs_backend, bs_yaml, bs_initial, bs_server>>
    /\ UNCHANGED notBootVars

\* if USER_STORIES_COLLECTION not in collection_names: create_collection
QdrantEnsureUserStories(p) ==
    /\ bs_backend = "qdrant"
    /\ bs_proc[p].pc = "user_stories"
    /\ CreateIfUnseen(p, "user_stories", "test_cases")
    /\ UNCHANGED <<bs_backend, bs_yaml, bs_initial>>
    /\ UNCHANGED notBootVars

\* if TEST_CASES_COLLECTION not in collection_names: create_collection
QdrantEnsureTestCases(p) ==
    /\ bs_backend = "qdrant"
    /\ bs_proc[p].pc = "test_cases"
    /\ CreateIfUnseen(p, "test_cases", "done")
    /\ UNCHANGED <<bs_backend, bs_yaml, bs_initial>>
    /\ UNCHANGED notBootVars

\* _ensure_schema_exists: schema = self.client.schema.get(); return if both
\* classes exist, else take the YAML branch or _create_default_schema
WeaviateGetSchema(p) ==
    /\ bs_backend = "weaviate"
    /\ bs_proc[p].pc = "get"
    /\ bs_proc' = [bs_proc EXCEPT ![p].seen = bs_server,
                                  ![p].pc = IF Collections \subseteq bs_server THEN "done"
                                            ELSE IF bs_yaml THEN "yaml_user_stories"
                                            ELSE "exists_user_stories"]
    /\ UNCHANGED <<bs_backend, bs_yaml, bs_initial, bs_server>>
    /\ UNCHANGED notBootVars

\* the YAML loop: if class_def['class'] not in existing_classes: create_class
WeaviateYamlClass(p, name, next) ==
    /\ bs_backend = "weaviate"
    /\ bs_proc[p].pc = "yaml_" \o name
    /\ CreateIfUnseen(p, name, next)
    /\ UNCHANGED <<bs_backend, bs_yaml, bs_initial>>
    /\ UNCHANGED notBootVars

\* _create_default_schema: if not self.client.schema.exists(<class>)
WeaviateSchemaExists(p, name, next) ==
    /\ bs_backend = "weaviate"
    /\ bs_proc[p].pc = "exists_" \o name
    /\ bs_proc' = [bs_proc EXCEPT ![p].pc = IF name \in bs_server THEN next
                                            ELSE "create_" \o name]
    /\ UNCHANGED <<bs_backend, bs_yaml, bs_initial, bs_server>>
    /\ UNCHANGED notBootVars

\* _create_default_schema: self.client.schema.create_class(<class>)
WeaviateCreateClass(p, name, next) ==
    /\ bs_backend = "weaviate"
    /\ bs_proc[p].pc = "create_" \o name
    /\ LET r == CreateCollection(bs_server, name) IN
          /\ bs_proc' = [bs_proc EXCEPT ![p].pc = IF r.raised THEN "raised" ELSE next]
          /\ bs_server' = r.server
    /\ UNCHANGED <<bs_backend, bs_yaml, bs_initial>>
    /\ UNCHANGED notBootVars

qdrant_get_collections == \E p \in Procs : QdrantGetCollections(p)

qdrant_ensure_user_stories == \E p \in Procs : QdrantEnsureUserStories(p)

qdrant_ensure_test_cases == \E p \in Procs : QdrantEnsureTestCases(p)

weaviate_get_schema == \E p \in Procs : WeaviateGetSchema(p)

weaviate_yaml_user_stories ==
    \E p \in Procs : WeaviateYamlClass(p, "user_stories", "yaml_test_cases")

weaviate_yaml_test_cases ==
    \E p \in Procs : WeaviateYamlClass(p, "test_cases", "done")

weaviate_exists_user_stories ==
    \E p \in Procs : WeaviateSchemaExists(p, "user_stories", "exists_test_cases")

weaviate_create_user_stories ==
    \E p \in Procs : WeaviateCreateClass(p, "user_stories", "exists_test_cases")

weaviate_exists_test_cases ==
    \E p \in Procs : WeaviateSchemaExists(p, "test_cases", "done")

weaviate_create_test_cases ==
    \E p \in Procs : WeaviateCreateClass(p, "test_cases", "done")

BootNext ==
    \/ qdrant_get_collections
    \/ qdrant_ensure_user_stories
    \/ qdrant_ensure_test_cases
    \/ weaviate_get_schema
    \/ weaviate_yaml_user_stories
    \/ weaviate_yaml_test_cases
    \/ weaviate_exists_user_stories
    \/ weaviate_create_user_stories
    \/ weaviate_exists_test_cases
    \/ weaviate_create_test_cases

BootSpec == BootInit /\ [][BootNext]_vars

----------------------------------------------------------------------------
(* EmbeddingService from its construction on: __init__ with its smoke      *)
(* test, then embed_text, embed_user_story and embed_test_case on texts    *)
(* that are strings.                                                       *)

notTemplateVars == <<graphVars, qaVars, batchVars, storeVars, bootVars, csvVars,
                     adoVars>>

Titles == {"T", "U"}

Descriptions == {"D"}

StepsTexts == {"S"}

ExpectedResults == {"E"}

\* embed_user_story: f"Title: {title}\nDescription: {description}" with no
\* line break between the fields
UserStoryText_space(title, description) ==
    "Title: " \o title \o " Description: " \o description

\* embed_user_story: f"Title: {title}\nDescription: {description}"
UserStoryText(title, description) ==
    "Title: " \o title \o "\nDescription: " \o description

\* embed_test_case: f"Title: {title}\nDescription: {description}\nSteps:
\* {steps}\nExpected Result: {expected_result}"
TestCaseText(title, description, steps, expected_result) ==
    "Title: " \o title \o "\nDescription: " \o description \o "\nSteps: " \o steps
        \o "\nExpected Result: " \o expected_result

\* the strings a caller passes to embed_text directly
DirectTexts ==
    {"Title: T\nDescription: D", "Title: T Description: D",
     "Title: T\nDescription: D\nSteps: S\nExpected Result: E"}

TemplateInit ==
    /\ GraphIdle
    /\ QaIdle
    /\ CacheIdle
    /\ ServiceIdle
    /\ BatchIdle
    /\ StoreIdle
    /\ BootIdle
    /\ CtorIdle
    /\ CsvIdle
    /\ AdoIdle

\* what the smoke test's backend call does: raise, or return a vector with so
\* many components
SmokeOutcomes ==
    {[raises |-> TRUE, len |-> 0]} \cup {[raises |-> FALSE, len |-> d] : d \in 1..MaxDim}

\* _test_embedding: one backend call; an exception is logged and re-raised, a
\* vector of another length than EMBEDDING_DIMENSIONS is logged as a warning
TestEmbedding(smoke) ==
    IF smoke.raises
    THEN [raised |-> TRUE, dim |-> 0, warned |-> FALSE]
    ELSE [raised |-> FALSE, dim |-> smoke.len,
          warned |-> smoke.len # EMBEDDING_DIMENSIONS]

\* EmbeddingService.__init__: the cache is built from `cache_size or
\* EMBEDDING_CACHE_SIZE` (default is the configured EMBEDDING_CACHE_SIZE), the
\* embedder of either kind is loaded, _test_embedding runs; any exception of
\* the last two is logged and re-raised
Construct(cache_size, default, load, smoke) ==
    /\ ctor.state = "none"
    /\ max_size' = IF cache_size = NoneValue THEN default ELSE cache_size
    /\ LET t == TestEmbedding(smoke) IN
       ctor' = IF load = "fail"
               THEN [ctor EXCEPT !.state = "failed"]
               ELSE [ctor EXCEPT !.state = IF t.raised THEN "failed" ELSE "constructed",
                                 !.smoke_calls = 1,
                                 !.smoke_raised = t.raised,
                                 !.dim = t.dim,
                                 !.warned = t.warned]
    /\ UNCHANGED <<cache, hits, misses, tpl_call>>
    /\ UNCHANGED <<callVars, svcVars>>
    /\ UNCHANGED notTemplateVars

\* embed_text(text) of the constructed service, entered as op with the fields
\* it was built from: cache.get, and on a miss _embed_text_with_retry and
\* cache.set
EmbedTextOf(op, title, description, text) ==
    /\ ctor.state = "constructed"
    /\ calls_made < MaxTemplateCalls
    /\ calls_made' = calls_made + 1
    /\ LET cached == Lookup(cache, CacheKey(text)) IN
       IF cached # NoneValue
       THEN /\ hits' = hits + 1
            /\ tpl_call' = [op |-> op, title |-> title, description |-> description,
                            text |-> text, was_cached |-> TRUE, ret |-> cached,
                            raised |-> FALSE, calls |-> 0]
            /\ UNCHANGED <<cache, misses, backend_calls, evictions>>
       ELSE /\ misses' = misses + 1
            /\ \E r \in RetryResults, value \in Vectors :
                  LET stored == AfterEmbedding(cache, max_size, text, value)
                      ok == r.result = "ok" /\ ~stored.raised
                  IN  /\ backend_calls' = backend_calls + r.calls
                      /\ cache' = IF ok THEN stored.cache ELSE cache
                      /\ evictions' = IF ok /\ Evicts(cache, max_size)
                                      THEN evictions + 1 ELSE evictions
                      /\ tpl_call' = [op |-> op, title |-> title,
                                      description |-> description, text |-> text,
                                      was_cached |-> FALSE,
                                      ret |-> IF ok THEN value ELSE NoneValue,
                                      raised |-> ~ok, calls |-> r.calls]
            /\ UNCHANGED hits
    /\ UNCHANGED <<max_size, ctor, embedded, retry_log>>
    /\ UNCHANGED callVars
    /\ UNCHANGED notTemplateVars

construct ==
    \E cache_size \in 0..MaxCacheSize, default \in 0..MaxCacheSize,
       load \in {"ok", "fail"}, smoke \in SmokeOutcomes :
        Construct(cache_size, default, load, smoke)

embed_text == \E text \in DirectTexts : EmbedTextOf("embed_text", "", "", text)

embed_user_story ==
    \E title \in Titles, description \in Descriptions :
        EmbedTextOf("embed_user_story", title, description,
                    UserStoryText(title, description))

embed_test_case ==
    \E title \in Titles, description \in Descriptions,
       steps \in StepsTexts, expected_result \in ExpectedResults :
        EmbedTextOf("embed_test_case", title, description,
                    TestCaseText(title, description, steps, expected_result))

TemplateNext ==
    \/ construct
    \/ embed_text
    \/ embed_user_story
    \/ embed_test_case

TemplateSpec == TemplateInit /\ [][TemplateNext]_vars

----------------------------------------------------------------------------
(* csv_writer, src/test_generation_agent/app/utils/csv_writer.py           *)
(* A markdown text is the sequence of its lines. A line is given by what   *)
(* the parser asks of it: whether it is empty, starts with '#', starts     *)
(* with a steps or an expected-result prefix, splits at its first '.' into *)
(* a number and a description, and which words it contains.                *)

notCsvVars == <<graphVars, qaVars, cacheVars, callVars, svcVars, batchVars, storeVars,
                bootVars, ctorVars, adoVars>>

\* kinds of line: "text" (no '#', no number), "blank", "steps_heading"
\* ('## Steps', '# Test Steps', ...), "heading" (another '#' line),
\* "expected_heading" ('## Expected Result', '# Expected'), "expected_label"
\* ('Expected Result:' with no '#'), "step" ('<num>. <desc>')
MdLine(kind, num, desc, words) ==
    [kind |-> kind, num |-> num, desc |-> desc, words |-> words]

\* first lines: '# Login works', '# Rejects Invalid password',
\* '# Password at the boundary'
TitleLines ==
    {MdLine("heading", 0, "Login works", {}),
     MdLine("heading", 0, "Rejects Invalid password", {"Invalid"}),
     MdLine("heading", 0, "Password at the boundary", {"boundary"})}

BodyLines ==
    {MdLine("text", 0, "The user logs in", {}),
     MdLine("text", 0, "At the LIMIT of the field", {"LIMIT"}),
     MdLine("text", 0, "The login fails", {"fails"}),
     MdLine("blank", 0, "", {}),
     MdLine("steps_heading", 0, "Steps", {}),
     MdLine("expected_heading", 0, "Expected Result", {}),
     MdLine("expected_label", 0, "Expected Result:", {}),
     MdLine("step", 1, "Open the page", {}),
     MdLine("step", 2, "Enter the password", {}),
     MdLine("step", 3, "Enter the max length", {"max"})}

\* str.lower() on the words of the model
Lower(word) ==
    CASE word = "Invalid" -> "invalid"
      [] word = "LIMIT" -> "limit"
      [] OTHER -> word

\* `term in text` for a text given by its words: a substring test
Contains(words, term) ==
    \E word \in words :
        \/ Lower(word) = term
        \/ (Lower(word) = "fails" /\ term = "fail")

\* line.strip().lower().startswith(('## steps', '## test steps', '# steps',
\* '# test steps'))
IsStepsHeading(line) == line.kind = "steps_heading"

\* line.strip().startswith('1.')
StartsWithOne(line) == line.kind = "step" /\ line.num = 1

\* not line or line.startswith('#')
IsSkipped(line) ==
    line.kind \in {"blank", "heading", "steps_heading", "expected_heading"}

\* line.lower().startswith(('## expected', '# expected', 'expected result'))
IsExpectedStart(line) == line.kind \in {"expected_heading", "expected_label"}

\* step_parts = line.split('.', 1); two parts, the first one a number
IsNumbered(line) == line.kind = "step"

\* the first index in lo..Len(lines) whose line satisfies Test, 0 if none
FirstIndex(lines, lo, Test(_)) ==
    IF \E i \in lo..Len(lines) : Test(lines[i])
    THEN CHOOSE i \in lo..Len(lines) :
            Test(lines[i]) /\ \A j \in lo..(i - 1) : ~Test(lines[j])
    ELSE 0

\* steps_start_index: the steps heading, else the first line starting with
\* '1.', else none (0); indices count from 1, the title line is line 1
StepsStart(lines) ==
    LET heading == FirstIndex(lines, 2, IsStepsHeading) IN
    IF heading # 0 THEN heading ELSE FirstIndex(lines, 2, StartsWithOne)

\* the words of description: the lines after the title up to the steps
\* heading, or all of them when there is no steps heading
DescriptionWords(lines) ==
    LET heading == FirstIndex(lines, 2, IsStepsHeading)
        last == IF heading # 0 THEN heading - 1 ELSE Len(lines)
    IN  UNION {lines[i].words : i \in 2..last}

RECURSIVE ParseFrom(_, _, _)
\* the loop over lines[steps_start_index:]: acc holds steps, expected_result
\* (the lines appended to it) and expected_result_found
ParseFrom(lines, i, acc) ==
    IF i > Len(lines) THEN acc
    ELSE LET line == lines[i] IN
         IF IsSkipped(line) THEN ParseFrom(lines, i + 1, acc)
         ELSE IF IsExpectedStart(line)
         THEN ParseFrom(lines, i + 1, [acc EXCEPT !.found = TRUE])
         ELSE IF acc.found
         THEN ParseFrom(lines, i + 1,
                        [acc EXCEPT !.expected = Append(@, line.desc)])
         ELSE IF IsNumbered(line)
         THEN ParseFrom(lines, i + 1,
                        [acc EXCEPT !.steps =
                            Append(@, [step |-> line.num, description |-> line.desc])])
         ELSE ParseFrom(lines, i + 1, acc)

\* a classification that tests the edge terms first
TestType_edgefirst(words) ==
    IF \E term \in {"edge", "boundary", "limit", "max", "min"} : Contains(words, term)
    THEN "edge"
    ELSE IF \E term \in {"negative", "invalid", "error", "fail", "reject"} :
                Contains(words, term)
    THEN "negative"
    ELSE "positive"

\* test_type from text_to_check = (title + " " + description).lower()
TestType(words) ==
    IF \E term \in {"negative", "invalid", "error", "fail", "reject"} :
            Contains(words, term)
    THEN "negative"
    ELSE IF \E term \in {"edge", "boundary", "limit", "max", "min"} :
                Contains(words, term)
    THEN "edge"
    ELSE "positive"

\* markdown_to_test_case
MarkdownToTestCase(lines) ==
    LET start == StepsStart(lines) IN
    IF start = 0 THEN NoRecord
    ELSE LET parsed == ParseFrom(lines, start,
                                 [steps |-> <<>>, expected |-> <<>>, found |-> FALSE])
             pop == parsed.expected = <<>> /\ parsed.steps # <<>>
             words == lines[1].words \cup DescriptionWords(lines)
         IN  [returned |-> TRUE,
              title |-> lines[1].words,
              description |-> DescriptionWords(lines),
              steps |-> IF pop THEN SubSeq(parsed.steps, 1, Len(parsed.steps) - 1)
                        ELSE parsed.steps,
              expected_result |-> IF pop
                                  THEN <<parsed.steps[Len(parsed.steps)].description>>
                                  ELSE parsed.expected,
              test_type |-> TestType(words)]

\* markdown_text.strip().split('\n'): a title line and up to MaxBodyLines
\* more lines, the last of them not empty
MarkdownTexts ==
    {<<title>> \o body :
        title \in TitleLines,
        body \in {b \in SeqsUpTo(BodyLines, MaxBodyLines) :
                    b = <<>> \/ b[Len(b)].kind # "blank"}}

\* the steps of a test case passed to the CSV functions; csv.writer writes
\* every cell as text, so the step number is kept as text
StepValues ==
    {[step |-> "1", description |-> "Open the page"],
     [step |-> "2", description |-> "Submit"]}

\* the test cases passed to the CSV functions: none of them carries a
\* "test_id", all of them carry a "test_type"
CsvCases ==
    [title : {"Login works"}, test_type : {"positive"},
     description : {"The user logs in"},
     steps : SeqsUpTo(StepValues, MaxSteps),
     expected_result : {"Logged in"}]

CsvHeader == <<"Step", "Description", "Expected Result">>

CsvAllHeader ==
    <<"Test Case ID", "Title", "Type", "Description", "Step", "Step Description",
      "Expected Result">>

\* a rendering that writes the expected result in every row
TestCaseToCsv_everyrow(test_case) ==
    <<CsvHeader>> \o
    [i \in 1..Len(test_case.steps) |->
        <<test_case.steps[i].step, test_case.steps[i].description,
          test_case.expected_result>>]

\* test_case_to_csv: the rows written, the header first
TestCaseToCsv(test_case) ==
    <<CsvHeader>> \o
    [i \in 1..Len(test_case.steps) |->
        IF i < Len(test_case.steps)
        THEN <<test_case.steps[i].step, test_case.steps[i].description, "">>
        ELSE <<test_case.steps[i].step, test_case.steps[i].description,
               test_case.expected_result>>]

\* f"TC{i}"
DefaultTestId(i) ==
    CASE i = 1 -> "TC1" [] i = 2 -> "TC2" [] i = 3 -> "TC3" [] OTHER -> "TC4"

\* the rows test_cases_to_csv writes for the i-th test case
CaseRows(tc, i) ==
    [j \in 1..Len(tc.steps) |->
        <<DefaultTestId(i),
          IF j = 1 THEN tc.title ELSE "",
          IF j = 1 THEN tc.test_type ELSE "",
          IF j = 1 THEN tc.description ELSE "",
          tc.steps[j].step,
          tc.steps[j].description,
          IF j = Len(tc.steps) THEN tc.expected_result ELSE "">>]

RECURSIVE AllCaseRows(_, _)
\* the rows of test cases i.. of the list
AllCaseRows(cases, i) ==
    IF i > Len(cases) THEN <<>>
    ELSE CaseRows(cases[i], i) \o AllCaseRows(cases, i + 1)

\* test_cases_to_csv: the rows written, the header first
TestCasesToCsv(cases) == <<CsvAllHeader>> \o AllCaseRows(cases, 1)

CsvInit ==
    /\ GraphIdle
    /\ QaIdle
    /\ CacheIdle
    /\ ServiceIdle
    /\ BatchIdle
    /\ StoreIdle
    /\ BootIdle
    /\ CtorIdle
    /\ md_out = NoRecord
    /\ csv_out = NoCsv
    /\ csv_all = <<>>
    /\ AdoIdle
    /\ \/ /\ md_pc = "markdown"
          /\ md_text \in MarkdownTexts
          /\ csv_in = <<>>
       \/ /\ md_pc = "csv"
          /\ md_text = <<>>
          /\ csv_in \in SeqsUpTo(CsvCases, MaxCsvCases) \ {<<>>}

markdown_to_test_case ==
    /\ md_pc = "markdown"
    /\ md_out' = MarkdownToTestCase(md_text)
    /\ md_pc' = "parsed"
    /\ UNCHANGED <<md_text, csv_in, csv_out, csv_all>>
    /\ UNCHANGED notCsvVars

test_case_to_csv ==
    /\ md_pc = "csv"
    /\ csv_out = NoCsv
    /\ \E i \in 1..Len(csv_in) :
        csv_out' = [of |-> i, rows |-> TestCaseToCsv(csv_in[i])]
    /\ UNCHANGED <<md_pc, md_text, md_out, csv_in, csv_all>>
    /\ UNCHANGED notCsvVars

test_cases_to_csv ==
    /\ md_pc = "csv"
    /\ csv_all = <<>>
    /\ csv_all' = TestCasesToCsv(csv_in)
    /\ UNCHANGED <<md_pc, md_text, md_out, csv_in, csv_out>>
    /\ UNCHANGED notCsvVars

CsvNext ==
    \/ markdown_to_test_case
    \/ test_case_to_csv
    \/ test_cases_to_csv

CsvSpec == CsvInit /\ [][CsvNext]_vars

----------------------------------------------------------------------------
(* AzureDevOpsService.create_test_cases_for_story,                         *)
(* src/test_generation_agent/app/services/azure_devops.py                  *)
(* Every method of the service that the function calls is one request to   *)
(* the tracker (_make_request); a request returns the tracker's response   *)
(* or raises.                                                              *)

notAdoVars == <<graphVars, qaVars, cacheVars, callVars, svcVars, batchVars, storeVars,
                bootVars, ctorVars, csvVars>>

\* the work item IDs the tracker assigns
TrackerIds == 101..(100 + NumTrackerIds)

PlanId == 456

SuiteId == 789

\* test_case_id of a record as it is passed in: None, or the ID of an
\* earlier upload
InitialIds == {"None", "77"}

\* str(test_case_id)
Str(id) == ToString(id)

\* an entry of the call log: the method, the test case it is made for (0
\* for the calls before the loop), the ID it carries or returns, and whether
\* it returned
Call(op, k, id, ok) == [op |-> op, k |-> k, id |-> id, ok |-> ok]

\* the IDs the tracker has assigned so far
AssignedIds == {ado_calls[j].id : j \in {i \in 1..Len(ado_calls) :
                    ado_calls[i].op = "create_test_case" /\ ado_calls[i].ok}}

AdoInit ==
    /\ GraphIdle
    /\ QaIdle
    /\ CacheIdle
    /\ ServiceIdle
    /\ BatchIdle
    /\ StoreIdle
    /\ BootIdle
    /\ CtorIdle
    /\ CsvIdle
    /\ ado_pc = "get_work_item"
    /\ ado_k = 0
    /\ ado_records \in SeqsUpTo([test_case_id : InitialIds], MaxAdoCases)
    /\ ado_initial = ado_records
    /\ ado_calls = <<>>
    /\ ado_result = <<>>

\* the request made at position pc raises: `except Exception ... raise`
RequestRaises(op, k, id) ==
    /\ ado_calls' = Append(ado_calls, Call(op, k, id, FALSE))
    /\ ado_pc' = "raised"
    /\ UNCHANGED <<ado_k, ado_records, ado_initial, ado_result>>

\* story = self.get_work_item(story_id)
get_work_item ==
    /\ ado_pc = "get_work_item"
    /\ \/ /\ ado_calls' = Append(ado_calls, Call("get_work_item", 0, 0, TRUE))
          /\ ado_pc' = "create_test_plan"
          /\ UNCHANGED <<ado_k, ado_records, ado_initial, ado_result>>
       \/ RequestRaises("get_work_item", 0, 0)
    /\ UNCHANGED notAdoVars

\* plan = self.create_test_plan(...); plan_id = plan.get('id')
create_test_plan ==
    /\ ado_pc = "create_test_plan"
    /\ \/ /\ ado_calls' = Append(ado_calls, Call("create_test_plan", 0, PlanId, TRUE))
          /\ ado_pc' = "create_test_suite"
          /\ UNCHANGED <<ado_k, ado_records, ado_initial, ado_result>>
       \/ RequestRaises("create_test_plan", 0, 0)
    /\ UNCHANGED notAdoVars

\* suite = self.create_test_suite(plan_id, suite_name), then the loop starts,
\* or the function returns [] when test_cases is empty
create_test_suite ==
    /\ ado_pc = "create_test_suite"
    /\ \/ /\ ado_calls' = Append(ado_calls, Call("create_test_suite", 0, SuiteId, TRUE))
          /\ IF ado_records = <<>>
             THEN ado_pc' = "returned" /\ ado_k' = 0
             ELSE ado_pc' = "create_test_case" /\ ado_k' = 1
          /\ UNCHANGED <<ado_records, ado_initial, ado_result>>
       \/ RequestRaises("create_test_suite", 0, 0)
    /\ UNCHANGED notAdoVars

\* a loop body that writes the ID on the record as soon as the work item
\* exists
create_test_case_sets_id ==
    /\ ado_pc = "create_test_case"
    /\ \/ \E id \in TrackerIds \ AssignedIds :
            /\ ado_calls' = Append(ado_calls, Call("create_test_case", ado_k, id, TRUE))
            /\ ado_records' = [ado_records EXCEPT ![ado_k].test_case_id = Str(id)]
            /\ ado_pc' = "add_test_case_to_suite"
            /\ UNCHANGED <<ado_k, ado_initial, ado_result>>
       \/ RequestRaises("create_test_case", ado_k, 0)
    /\ UNCHANGED notAdoVars

\* work_item = self.create_test_case(test_case); test_case_id =
\* work_item.get('id'). The work item is held in `work_item` until it is
\* appended to created_test_cases.
create_test_case ==
    /\ ado_pc = "create_test_case"
    /\ \/ \E id \in TrackerIds \ AssignedIds :
            /\ ado_calls' = Append(ado_calls, Call("create_test_case", ado_k, id, TRUE))
            /\ ado_pc' = "add_test_case_to_suite"
            /\ UNCHANGED <<ado_k, ado_records, ado_initial, ado_result>>
       \/ RequestRaises("create_test_case", ado_k, 0)
    /\ UNCHANGED notAdoVars

\* test_case_id: the ID returned by the last create_test_case
WorkItemId == ado_calls[Len(ado_calls)].id

\* a loop body without the call that adds the work item to the suite
add_test_case_to_suite_skipped ==
    /\ ado_pc = "add_test_case_to_suite"
    /\ ado_pc' = "link_work_items"
    /\ UNCHANGED <<ado_k, ado_records, ado_initial, ado_calls, ado_result>>
    /\ UNCHANGED notAdoVars

\* self.add_test_case_to_suite(plan_id, suite_id, test_case_id)
add_test_case_to_suite ==
    /\ ado_pc = "add_test_case_to_suite"
    /\ \/ /\ ado_calls' = Append(ado_calls,
                                 Call("add_test_case_to_suite", ado_k, WorkItemId, TRUE))
          /\ ado_pc' = "link_work_items"
          /\ UNCHANGED <<ado_k, ado_records, ado_initial, ado_result>>
       \/ RequestRaises("add_test_case_to_suite", ado_k, WorkItemId)
    /\ UNCHANGED notAdoVars

\* self.link_work_items(story_id, test_case_id); then test_case.test_case_id
\* = str(test_case_id), created_test_cases.append(work_item), and the next
\* test case or `return created_test_cases`
link_work_items ==
    /\ ado_pc = "link_work_items"
    /\ \/ /\ ado_calls' = Append(ado_calls, Call("link_work_items", ado_k, WorkItemId, TRUE))
          /\ ado_records' = [ado_records EXCEPT ![ado_k].test_case_id = Str(WorkItemId)]
          /\ ado_result' = Append(ado_result, [id |-> WorkItemId])
          /\ IF ado_k < Len(ado_records)
             THEN ado_pc' = "create_test_case" /\ ado_k' = ado_k + 1
             ELSE ado_pc' = "returned" /\ ado_k' = ado_k
          /\ UNCHANGED ado_initial
       \/ RequestRaises("link_work_items", ado_k, WorkItemId)
    /\ UNCHANGED notAdoVars

AdoNext ==
    \/ get_work_item
    \/ create_test_plan
    \/ create_test_suite
    \/ create_test_case
    \/ add_test_case_to_suite
    \/ link_work_items

AdoSpec == AdoInit /\ [][AdoNext]_vars

----------------------------------------------------------------------------
(* Claims about EmbeddingCache                                             *)

Distinct(q) == \A i, j \in 1..Len(q) : i # j => q[i] # q[j]

C7_GetAfterSet ==
    /\ last_call.op = "set" =>
           /\ ~last_call.raised
           /\ Lookup(cache, CacheKey(last_call.text)) = last_call.arg
    /\ \A t \in Texts :
           HasKey(cache, CacheKey(t)) => Lookup(cache, CacheKey(t)) = last_set[t]
    /\ last_call.op = "get" =>
           last_call.ret = Lookup(cache, CacheKey(last_call.text))

\* the get calls so far that returned a vector
ReturningGets == {i \in 1..Len(get_log) : get_log[i] # NoneValue}

\* C26: after any single-threaded sequence of get and set calls, hits + misses
\* is the number of get calls, hits is the number of gets that returned a
\* vector, set changes neither counter, and get_stats reports size = number
\* of entries and hit_rate = hits / (hits + misses), or 0 before the first get.
C26_CountersMatchGets ==
    /\ [](LET stats == GetStats(cache, max_size, hits, misses)
              gets == Len(get_log)
              returned == Cardinality(ReturningGets)
          IN  /\ hits + misses = gets
              /\ hits = returned
              /\ stats.size = Len(cache)
              /\ stats.hits = returned
              /\ stats.misses = gets - returned
              /\ gets = 0 => stats.hit_rate.num = 0
              /\ gets > 0 => stats.hit_rate.num * gets = returned * stats.hit_rate.den)
    /\ [][last_call'.op = "set" => (hits' = hits /\ misses' = misses)]_vars

C26_Witness ==
    /\ Len(get_log) = 2
    /\ Cardinality(ReturningGets) = 1
    /\ hits = 1
    /\ misses = 1
    /\ Len(cache) = 2
    /\ last_call.op = "set"
    /\ ~last_call.raised

\* C28: set(text, v) for a text whose key is cached only replaces that key's
\* vector: the cache keeps its size and every other entry, also at capacity.
C28_SetCachedKeyOnlyReplaces ==
    [][(set_log' # set_log /\ HasKey(cache, CacheKey(last_call'.text))) =>
          /\ Len(cache') = Len(cache)
          /\ \A i \in 1..Len(cache) :
                cache[i].key # CacheKey(last_call'.text) =>
                    Lookup(cache', cache[i].key) = cache[i].value
          /\ Lookup(cache', CacheKey(last_call'.text)) = last_call'.arg
      ]_vars

----------------------------------------------------------------------------
(* Claims about EmbeddingService                                           *)

\* C10: embed_text calls the backend only when the cache lookup misses; on a
\* miss the result is in the cache when it is returned; a later embed_text of
\* the same text with no eviction in between makes no backend call, returns
\* the same vector and counts as one hit after the one miss.
C10_EmbedTextUsesCache ==
    /\ [](last_call.op = "embed_text" =>
            /\ (last_call.calls > 0) => (last_call.raised \/ HasKey(cache, CacheKey(last_call.text)))
            /\ (~last_call.raised) =>
                  Lookup(cache, CacheKey(last_call.text)) = last_call.ret)
    /\ [][calls_made' = calls_made + 1 =>
            LET t == last_call'.text
                wasCached == HasKey(cache, CacheKey(t))
            IN  /\ (backend_calls' > backend_calls) => ~wasCached
                /\ ~wasCached => /\ backend_calls' > backend_calls
                                 /\ misses' = misses + 1
                                 /\ hits' = hits
                /\ (embedded[t].ret # NoneValue /\ embedded[t].ev = evictions) =>
                      /\ backend_calls' = backend_calls
                      /\ ~last_call'.raised
                      /\ last_call'.ret = embedded[t].ret
                      /\ hits' = hits + 1
                      /\ misses' = misses
       ]_vars
    /\ []((calls_made = 2 /\ hits = 1) => misses = 1)

C10_Witness ==
    /\ calls_made = 2
    /\ hits = 1
    /\ misses = 1
    /\ backend_calls = 1
    /\ evictions = 0
    /\ last_call.op = "embed_text"
    /\ last_call.calls = 0
    /\ last_call.ret = embedded[last_call.text].ret
    /\ last_call.ret # NoneValue

\* C11: _embed_text_with_retry calls the backend again only after a
\* ConnectionError / TimeoutError, makes at most MAX_RETRY_ATTEMPTS backend
\* calls and then re-raises the last error; any other exception ends the call
\* at once, so one that the first backend call raises propagates after exactly
\* one backend call.
C11_RetryOnlyTransient ==
    (last_call.op = "embed_text" /\ Len(retry_log) > 0) =>
        LET n == Len(retry_log) IN
        /\ n = last_call.calls
        /\ n <= MAX_RETRY_ATTEMPTS
        /\ \A k \in 1..(n - 1) : retry_log[k] = "transient"
        /\ retry_log[n] = "transient" => (n = MAX_RETRY_ATTEMPTS /\ last_call.raised)
        /\ retry_log[n] = "fatal" => last_call.raised
        /\ retry_log[1] = "fatal" => n = 1

C11_Witness ==
    /\ last_call.op = "embed_text"
    /\ Len(retry_log) = MAX_RETRY_ATTEMPTS
    /\ \A k \in 1..Len(retry_log) : retry_log[k] = "transient"
    /\ last_call.raised
    /\ last_call.calls = MAX_RETRY_ATTEMPTS

\* C19: constructing an EmbeddingService raises when the smoke-test call
\* raises and when the smoke-test vector has another length than
\* EMBEDDING_DIMENSIONS; no instance exists after either.
C19_ConstructionFailsFast ==
    (ctor.smoke_calls = 1 /\ (ctor.smoke_raised \/ ctor.dim # EMBEDDING_DIMENSIONS)) =>
        ctor.state = "failed"

\* C20: embed_user_story(title, description) embeds exactly the text
\* "Title: {title}\nDescription: {description}" and shares the cache entry of
\* embed_text of that string: a call of either whose text is cached is a hit
\* that makes no backend call and returns the cached vector, and a call of
\* either that returns leaves its text cached.
C20_UserStoryTemplateSharesCache ==
    /\ [](tpl_call.op = "embed_user_story" =>
            tpl_call.text = "Title: " \o tpl_call.title \o "\nDescription: "
                                \o tpl_call.description)
    /\ [][(calls_made' = calls_made + 1
            /\ tpl_call'.op \in {"embed_user_story", "embed_text"}) =>
            LET key == CacheKey(tpl_call'.text) IN
            /\ HasKey(cache, key) =>
                  /\ backend_calls' = backend_calls
                  /\ hits' = hits + 1
                  /\ misses' = misses
                  /\ ~tpl_call'.raised
                  /\ tpl_call'.ret = Lookup(cache, key)
            /\ ~tpl_call'.raised => Lookup(cache', key) = tpl_call'.ret
       ]_vars

\* embed_user_story("T", "D") first, then embed_text of the templated string
\* as a hit with no backend call
C20_Witness ==
    /\ calls_made = 2
    /\ misses = 1
    /\ hits = 1
    /\ backend_calls = 1
    /\ tpl_call.op = "embed_text"
    /\ tpl_call.text = "Title: T\nDescription: D"
    /\ tpl_call.was_cached
    /\ tpl_call.calls = 0
    /\ tpl_call.ret # NoneValue

----------------------------------------------------------------------------
(* Claims about the cache under the concurrent _batch_embed workers        *)

\* a worker that has started a cache.get or cache.set and not finished it
InCacheCall(w) == wk[w].pc \in {"get_count", "set_iter", "set_next", "set_pop", "set_store"}

\* C8: the cache never holds more than max_size entries, for every
\* interleaving of the _batch_embed workers of embed_texts.
C8_CacheSizeBounded == Len(cache) <= max_size

\* C9: cache reads and writes of concurrent workers are mutually exclusive: no
\* worker takes a step of get or set while another worker is inside a get or
\* set on the same cache.
C9_CacheCallsExclusive ==
    \A w1, w2 \in 1..MaxWorkers : (InCacheCall(w1) /\ InCacheCall(w2)) => w1 = w2

----------------------------------------------------------------------------
(* Claims about embed_texts                                                *)

\* the slot of batch_results that worker w's local slot j lands in
ResultOf(w, j) == batch_results[BatchLo(w) + j - 1]

\* no backend call of this embed_texts raised
NoBackendFailure ==
    \A w \in Workers :
        /\ ~wk[w].batch_raised
        /\ \A j \in 1..Len(wk[w].how) : wk[w].how[j] # "fallback_failed"

\* C12: when the batch backend call raised for a sub-batch, embed_texts
\* returns a list as long as its input in which every entry of that sub-batch
\* whose per-item fallback failed is the zero vector, and every entry that was
\* a cache hit or whose fallback embedding succeeded is its real vector.
C12_DegradeNotFail ==
    batch_pc = "returned" =>
        /\ Len(batch_results) = Len(batch_texts)
        /\ \A w \in Workers : wk[w].batch_raised =>
              \A j \in 1..Len(wk[w].res) :
                 /\ wk[w].how[j] = "fallback_failed" => ResultOf(w, j) = ZeroVector
                 /\ wk[w].how[j] \in {"hit", "fallback_ok"} =>
                        ResultOf(w, j) = BackendVector(TextAt(w, j))

\* C13: embed_texts returns one entry per input text and, when no backend
\* call failed, entry i is the embedding of texts[i], for every interleaving
\* of the sub-batch workers.
C13_OrderPreserved ==
    batch_pc = "returned" =>
        /\ Len(batch_results) = Len(batch_texts)
        /\ NoBackendFailure =>
              \A i \in 1..Len(batch_texts) :
                 batch_results[i] = BackendVector(batch_texts[i])

\* the slots of embed_texts whose text is this one
SlotsOf(text) ==
    {<<w, j>> \in Workers \X (1..BATCH_SIZE) :
        j <= Len(wk[w].how) /\ TextAt(w, j) = text}

\* the text has a slot whose fallback embedding failed
FallbackFailedFor(text) ==
    \E s \in SlotsOf(text) : wk[s[1]].how[s[2]] = "fallback_failed"

\* C29: a failed embedding never changes the cache: embed_text that raises
\* adds no entry, the zero vector that _batch_embed substitutes after a failed
\* fallback is not stored, and a later embed_text of that text calls the
\* backend again instead of returning the placeholder.
C29_FailureLeavesCacheAlone ==
    /\ [](\A i \in 1..Len(cache) : cache[i].value # ZeroVector)
    /\ []((last_call.op = "embed_text" /\ FallbackFailedFor(last_call.text)) =>
              /\ last_call.ret # ZeroVector
              /\ last_call.calls > 0)
    /\ [][/\ (last_call'.op = "embed_text" /\ last_call.op = "none"
               /\ last_call'.raised) => cache' = cache
          /\ (\E w \in Workers : \E j \in 1..Len(wk[w].how) :
                  wk[w].how[j] # "fallback_failed"
                  /\ wk'[w].how[j] = "fallback_failed") => cache' = cache
         ]_vars

\* C29 with the later call's backend call required only when the text is not
\* cached: the cache never holds the placeholder, a failure changes no entry,
\* and the later embed_text of a text whose fallback failed calls the backend
\* unless an embedding of the same text that succeeded was cached, in which
\* case it returns that embedding.
C29_PlaceholderNeverCached ==
    /\ [](\A i \in 1..Len(cache) : cache[i].value # ZeroVector)
    /\ []((last_call.op = "embed_text" /\ FallbackFailedFor(last_call.text)) =>
              /\ last_call.ret # ZeroVector
              /\ last_call.calls = 0 =>
                    last_call.ret = BackendVector(last_call.text))
    /\ [][/\ (last_call'.op = "embed_text" /\ last_call.op = "none"
               /\ last_call'.raised) => cache' = cache
          /\ (last_call'.op = "embed_text" /\ last_call.op = "none"
               /\ FallbackFailedFor(last_call'.text)) =>
                  (last_call'.calls = 0 <=> HasKey(cache, CacheKey(last_call'.text)))
          /\ (\E w \in Workers : \E j \in 1..Len(wk[w].how) :
                  wk[w].how[j] # "fallback_failed"
                  /\ wk'[w].how[j] = "fallback_failed") => cache' = cache
         ]_vars

\* the fallback of the only slot of a text failed and the later embed_text of
\* that text called the backend
C29_Witness ==
    /\ last_call.op = "embed_text"
    /\ FallbackFailedFor(last_call.text)
    /\ \A s \in SlotsOf(last_call.text) : wk[s[1]].how[s[2]] = "fallback_failed"
    /\ last_call.calls = 1
    /\ ~last_call.raised
    /\ last_call.ret = BackendVector(last_call.text)
    /\ HasKey(cache, CacheKey(last_call.text))

----------------------------------------------------------------------------
(* Claims about the vector stores                                          *)

FindOps == {"find_similar_stories", "find_similar_test_cases"}

\* the position of the hit with this id in what the backend reported, 0 if
\* it reported none
ReportedAt(id) ==
    IF \E j \in 1..Len(vs_call.reported) : vs_call.reported[j].id = id
    THEN CHOOSE j \in 1..Len(vs_call.reported) : vs_call.reported[j].id = id
    ELSE 0

\* C14: on both backends find_similar_stories never returns an entry whose
\* story_id is the query's story_id, also when the query story is stored and
\* is searched with its own embedding.
C14_NoSelfMatch ==
    vs_call.op = "find_similar_stories" =>
        \A i \in 1..Len(vs_call.results) :
            vs_call.results[i].story_id # vs_call.story_id

\* C16: when the backend call of store_user_story, store_test_case,
\* find_similar_stories or find_similar_test_cases fails, the method does not
\* raise, on every backend.
C16_BackendFailureDoesNotRaise ==
    vs_call.backend_failed => ~vs_call.raised

\* C17: store_user_story, find_similar_stories and find_similar_test_cases
\* compute the embedding of a story that has none before the backend call and
\* send that embedding; for a story that has one, the embedding service is
\* not called, the story keeps its embedding and that embedding is sent.
C17_LazyEmbedding ==
    vs_call.op \in {"store_user_story"} \cup FindOps =>
        /\ vs_call.before = NoneValue =>
              /\ vs_call.embed_called
              /\ vs_call.sent = vs_call.after
              /\ (vs_call.after = NoneValue) => (vs_call.raised /\ ~vs_call.backend_failed
                                                   /\ vs_call.reported = <<>>)
        /\ vs_call.before # NoneValue =>
              /\ ~vs_call.embed_called
              /\ vs_call.after = vs_call.before
              /\ vs_call.sent = vs_call.before

C17_Witness ==
    /\ vs_call.op = "find_similar_stories"
    /\ vs_call.before = NoneValue
    /\ vs_call.embed_called
    /\ vs_call.after # NoneValue
    /\ vs_call.sent = vs_call.after
    /\ Len(vs_call.results) >= 1

\* C18: find_similar_stories and find_similar_test_cases never reorder what
\* the backend reported: every result carries the score reported for it, the
\* results come in the reported order, only self-matches are left out, and
\* so the results are in non-increasing score order when the report is.
C18_ResultsKeepReportedOrder ==
    (vs_call.op \in FindOps /\ ~vs_call.raised) =>
        LET res == vs_call.results
            rep == vs_call.reported
        IN  /\ \A i \in 1..Len(res) :
                  /\ ReportedAt(res[i].id) # 0
                  /\ rep[ReportedAt(res[i].id)].score = res[i].similarity_score
            /\ \A i, j \in 1..Len(res) :
                  i < j => ReportedAt(res[i].id) < ReportedAt(res[j].id)
            /\ \A j \in 1..Len(rep) :
                  (rep[j].story_id # vs_call.story_id \/ vs_call.op = "find_similar_test_cases")
                      => \E i \in 1..Len(res) : res[i].id = rep[j].id
            /\ (\A i, j \in 1..Len(rep) : i < j => rep[i].score >= rep[j].score)
                  => \A i, j \in 1..Len(res) :
                        i < j => res[i].similarity_score >= res[j].similarity_score

C18_Witness ==
    /\ vs_backend = "weaviate"
    /\ vs_call.op = "find_similar_stories"
    /\ Len(vs_call.reported) = 3
    /\ Len(vs_call.results) = 2
    /\ vs_call.reported[1].story_id = vs_call.story_id
    /\ vs_call.results[1].similarity_score > vs_call.results[2].similarity_score

\* C15: when two processes construct the same backend concurrently against a
\* server that has neither collection, neither constructor raises, and once
\* both have returned the server has both collections.
C15_ConcurrentBootstrapSafe ==
    bs_initial = {} =>
        /\ \A p \in Procs : bs_proc[p].pc # "raised"
        /\ (\A p \in Procs : bs_proc[p].pc = "done") => bs_server = Collections

----------------------------------------------------------------------------
(* Claims about csv_writer                                                 *)

HasNegative(words) ==
    \E term \in {"negative", "invalid", "error", "fail", "reject"} : Contains(words, term)

HasEdge(words) ==
    \E term \in {"edge", "boundary", "limit", "max", "min"} : Contains(words, term)

\* the line that opens the expected-result section at or after the steps
\* start, 0 if there is none
ExpectedAt(lines) == FirstIndex(lines, StepsStart(lines), IsExpectedStart)

\* the numbered lines of the block, from the steps start to the
\* expected-result section
NumberedSteps(lines) ==
    LET last == IF ExpectedAt(lines) # 0 THEN ExpectedAt(lines) - 1 ELSE Len(lines)
    IN  SelectSeq([i \in 1..(last - StepsStart(lines) + 1) |->
                        lines[StepsStart(lines) + i - 1]],
                  IsNumbered)

\* the text under the expected-result marker
ExpectedText(lines) ==
    IF ExpectedAt(lines) = 0 THEN <<>>
    ELSE SelectSeq([i \in 1..(Len(lines) - ExpectedAt(lines)) |->
                        lines[ExpectedAt(lines) + i]],
                   LAMBDA line : line.kind \in {"text", "step"})

StepOf(line) == [step |-> line.num, description |-> line.desc]

\* C22: every record markdown_to_test_case returns has at least one step and
\* a test_type among positive, negative and edge
C22_RecordHasAStep ==
    (md_pc = "parsed" /\ md_out.returned) =>
        /\ Len(md_out.steps) >= 1
        /\ md_out.test_type \in {"positive", "negative", "edge"}

\* C23: with N >= 1 numbered steps and no expected-result text the record has
\* the first N-1 steps and the N-th step's description as expected result;
\* with an expected-result section holding text it has all N steps and that
\* text as expected result
C23_LastStepBecomesExpected ==
    (md_pc = "parsed" /\ md_out.returned /\ Len(NumberedSteps(md_text)) >= 1) =>
        LET numbered == NumberedSteps(md_text)
            N == Len(numbered)
        IN  IF ExpectedText(md_text) = <<>>
            THEN /\ md_out.steps = [i \in 1..(N - 1) |-> StepOf(numbered[i])]
                 /\ md_out.expected_result = <<numbered[N].desc>>
            ELSE /\ md_out.steps = [i \in 1..N |-> StepOf(numbered[i])]
                 /\ md_out.expected_result =
                        [i \in 1..Len(ExpectedText(md_text)) |->
                            ExpectedText(md_text)[i].desc]

\* C24: the test_type of a returned record is negative when title and
\* description hold a negative keyword, edge when they hold an edge keyword
\* and no negative one, positive otherwise
C24_NegativeBeforeEdge ==
    (md_pc = "parsed" /\ md_out.returned) =>
        LET words == md_out.title \cup md_out.description IN
        /\ HasNegative(words) => md_out.test_type = "negative"
        /\ (HasEdge(words) /\ ~HasNegative(words)) => md_out.test_type = "edge"
        /\ (~HasEdge(words) /\ ~HasNegative(words)) => md_out.test_type = "positive"

\* a record whose title holds a negative keyword and whose description
\* holds an edge keyword
C24_Witness ==
    /\ md_pc = "parsed"
    /\ md_out.returned
    /\ HasNegative(md_out.title)
    /\ ~HasEdge(md_out.title)
    /\ HasEdge(md_out.description)
    /\ ~HasNegative(md_out.description)
    /\ md_out.test_type = "negative"

\* C25: test_case_to_csv writes the header row and then one row per step, in
\* step order, with the expected result in the last step's row only
C25_ExpectedResultInLastRow ==
    csv_out # NoCsv =>
        LET tc == csv_in[csv_out.of]
            rows == csv_out.rows
        IN  /\ Len(rows) = Len(tc.steps) + 1
            /\ rows[1] = CsvHeader
            /\ \A j \in 1..Len(tc.steps) :
                /\ rows[j + 1][1] = tc.steps[j].step
                /\ rows[j + 1][2] = tc.steps[j].description
                /\ rows[j + 1][3] = IF j = Len(tc.steps) THEN tc.expected_result ELSE ""

\* a test case with three steps and an expected result has been rendered
C25_Witness ==
    /\ csv_out # NoCsv
    /\ Len(csv_in[csv_out.of].steps) = 3
    /\ csv_in[csv_out.of].expected_result = "Logged in"
    /\ Len(csv_out.rows) = 4
    /\ csv_out.rows[4][3] = "Logged in"
    /\ csv_out.rows[2][3] = ""

----------------------------------------------------------------------------
(* Claims about AzureDevOpsService.create_test_cases_for_story             *)

\* the method called at position j of a run without failure
OpAt(j) ==
    CASE j = 1 -> "get_work_item"
      [] j = 2 -> "create_test_plan"
      [] j = 3 -> "create_test_suite"
      [] j > 3 /\ (j - 3) % 3 = 1 -> "create_test_case"
      [] j > 3 /\ (j - 3) % 3 = 2 -> "add_test_case_to_suite"
      [] OTHER -> "link_work_items"

\* the test case the call at position j is made for, 0 before the loop
CaseAt(j) == IF j <= 3 THEN 0 ELSE ((j - 4) \div 3) + 1

\* the position of the call that creates the work item of test case i
CreateAt(i) == 3 * i + 1

\* C21: the plan and the suite are created once each, then each test case in
\* input order is created, added to the suite and linked, in that order; on
\* return there is one work item per test case, in input order, and each
\* record carries the string form of the ID the tracker gave its work item
C21_CreateAddLinkInOrder ==
    /\ \A j \in 1..Len(ado_calls) :
        /\ ado_calls[j].op = OpAt(j)
        /\ ado_calls[j].k = CaseAt(j)
        /\ (ado_calls[j].op \in {"add_test_case_to_suite", "link_work_items"}
                => ado_calls[j].id = ado_calls[CreateAt(CaseAt(j))].id)
    /\ ado_pc = "returned" =>
        /\ Len(ado_calls) = 3 + 3 * Len(ado_records)
        /\ \A j \in 1..Len(ado_calls) : ado_calls[j].ok
        /\ Len(ado_result) = Len(ado_records)
        /\ \A i \in 1..Len(ado_records) :
            /\ ado_result[i].id = ado_calls[CreateAt(i)].id
            /\ ado_records[i].test_case_id = Str(ado_calls[CreateAt(i)].id)

\* the function returned for two test cases
C21_Witness ==
    /\ ado_pc = "returned"
    /\ Len(ado_records) = 2
    /\ Len(ado_calls) = 9
    /\ ado_records[1].test_case_id # ado_records[2].test_case_id
    /\ ado_initial[1].test_case_id = "77"

\* the calls made for test case i that returned
ReturnedFor(i, op) ==
    \E j \in 1..Len(ado_calls) :
        ado_calls[j].op = op /\ ado_calls[j].k = i /\ ado_calls[j].ok

\* C30: a record's test_case_id is written only after its work item was
\* created, added to the suite and linked; a failing tracker call propagates,
\* the records before the one being handled keep their tracker IDs and the
\* one being handled and the later ones are as they were passed in
C30_IdWrittenAfterLink ==
    /\ \A i \in 1..Len(ado_records) :
        ado_records[i] # ado_initial[i] =>
            /\ ReturnedFor(i, "create_test_case")
            /\ ReturnedFor(i, "add_test_case_to_suite")
            /\ ReturnedFor(i, "link_work_items")
            /\ ado_records[i].test_case_id = Str(ado_calls[CreateAt(i)].id)
    /\ (\E j \in 1..Len(ado_calls) : ~ado_calls[j].ok) <=> ado_pc = "raised"
    /\ ado_pc = "raised" =>
        \A i \in 1..Len(ado_records) :
            IF i < ado_calls[Len(ado_calls)].k
            THEN ado_records[i].test_case_id = Str(ado_calls[CreateAt(i)].id)
            ELSE ado_records[i] = ado_initial[i]

\* linking the second test case failed after its work item was created and
\* added to the suite
C30_Witness ==
    /\ ado_pc = "raised"
    /\ Len(ado_records) = 2
    /\ ado_calls[Len(ado_calls)].op = "link_work_items"
    /\ ado_calls[Len(ado_calls)].k = 2
    /\ ado_records[1].test_case_id # ado_initial[1].test_case_id
    /\ ado_records[2] = ado_initial[2]

====
